---- MODULE Spec2Model ----
(***************************************************************************)
(* smart-proxy: route matching, the dependency-aware readiness check with  *)
(* on-demand wake, and the route registry, as state machines.              *)
(*                                                                         *)
(* Go strings that the code inspects character by character (Host, Path,   *)
(* route ID) are sequences of one-character strings; workload names, which *)
(* the code only compares and passes on, are TLA+ strings.                 *)
(***************************************************************************)
EXTENDS Integers, Sequences, FiniteSets, TLC

VARIABLES
    store,   \* Store.routes: route ID -> RouteConfig
    cp,      \* the cluster's deployments: name -> [desired, ready]
    now,     \* time.Now(), in ticks
    hc,      \* one record per request-handling goroutine of ServeHTTP
    probe,   \* a client that repeats the matching pass for one host/path
    wc,      \* the goroutine of Watcher.Start and its current checkIdleRoutes
    sc,      \* the poll client and the handleStatusCheck call it has made
    rq,      \* requests of ServeHTTP, followed call by call: client -> record
    mu,      \* Store.mu, the RWMutex of the registry: its writer and readers
    held,    \* what callers of the Store hold: pointers they passed or got,
             \* and slices GetAllRoutes returned
    ing,     \* the Ingress objects the admin server patches and unpatches
    tk,      \* the ticker of Watcher.Start and the loop that ranges over it
    mt,      \* Handler.Metrics and the goroutines that count a request
    lg,      \* the Logger: its mutex, subscribers and their channels
    proc     \* the process: its Kubernetes client and whether it runs

\* the variables the handler, the watcher and the poll leave alone
rest == <<tk, mt, lg, proc>>

others == <<rq, mu, held, ing, rest>>

vars == <<store, cp, now, hc, probe, wc, sc, others>>

(***************************************************************************)
(* Bounds of the model.                                                    *)
(***************************************************************************)
MaxDeps == 1        \* dependencies per route in the initial registries
MaxReplicas == 2    \* largest replica count of a deployment
MaxRoutes == 2      \* routes in a registry built through the admin API
MaxProbes == 2      \* matching passes a poll client repeats for one host/path
MaxTime == 3        \* the clock stops here

(***************************************************************************)
(* strings                                                                 *)
(***************************************************************************)
\* strings.HasPrefix(s, prefix)
HasPrefix(s, prefix) ==
    /\ Len(prefix) <= Len(s)
    /\ SubSeq(s, 1, Len(prefix)) = prefix

\* strings.Contains(s, c) for a one-character c
Contains(s, c) == \E i \in 1..Len(s) : s[i] = c

\* bytealg.IndexByteString: position of the first c in s, 0 when absent
\* (Go: -1 when absent, positions from 0)
IndexByte(s, c) ==
    IF Contains(s, c)
    THEN CHOOSE i \in 1..Len(s) : s[i] = c /\ \A j \in 1..(i-1) : s[j] # c
    ELSE 0

\* bytealg.LastIndexByteString: position of the last c in s, 0 when absent
LastIndexByte(s, c) ==
    IF Contains(s, c)
    THEN CHOOSE i \in 1..Len(s) : s[i] = c /\ \A j \in (i+1)..Len(s) : s[j] # c
    ELSE 0

\* s[from:] of Go, with from counted from 1 here
Tail_(s, from) == SubSeq(s, from, Len(s))

\* net.SplitHostPort(hostport): [err, host]; the port is not used by the caller
SplitHostPort(hostport) ==
    LET i   == LastIndexByte(hostport, ":")
        end == IndexByte(hostport, "]")
        bad == [err |-> TRUE, host |-> <<>>]
    IN  IF i = 0 THEN bad                                  \* missing port
        ELSE IF hostport[1] = "["
        THEN IF end = 0 THEN bad                           \* missing ']'
             ELSE IF end = Len(hostport) THEN bad          \* missing port
             ELSE IF end + 1 # i THEN bad                  \* too many colons / missing port
             ELSE IF Contains(Tail_(hostport, 2), "[") THEN bad
             ELSE IF Contains(Tail_(hostport, end + 1), "]") THEN bad
             ELSE [err |-> FALSE, host |-> SubSeq(hostport, 2, end - 1)]
        ELSE IF Contains(SubSeq(hostport, 1, i - 1), ":") THEN bad   \* too many colons
             ELSE IF Contains(hostport, "[") THEN bad
             ELSE IF Contains(hostport, "]") THEN bad
             ELSE [err |-> FALSE, host |-> SubSeq(hostport, 1, i - 1)]

\* requestHost of ServeHTTP / checkHost of handleStatusCheck
NormalizeHost(h) ==
    IF Contains(h, ":")
    THEN LET r == SplitHostPort(h) IN IF r.err THEN h ELSE r.host
    ELSE h

(***************************************************************************)
(* store: RouteConfig and Store                                            *)
(***************************************************************************)
\* the zero value of store.RouteConfig (var matchedRoute store.RouteConfig)
NoRoute ==
    [ID |-> <<>>, Host |-> <<>>, Path |-> <<>>, Deployment |-> "",
     Dependencies |-> <<>>, IdleTimeout |-> 0, LastActivity |-> 0]

\* an UpdateActivity that makes a record for the id it does not find
UpdateActivity_Upsert(st, id, t) ==
    [k \in DOMAIN st \cup {id} |->
        IF k = id
        THEN [(IF id \in DOMAIN st THEN st[id] ELSE [NoRoute EXCEPT !.ID = id])
                 EXCEPT !.LastActivity = t]
        ELSE st[k]]

\* Store.UpdateActivity(id) at time t: a no-op for an id that is no key
UpdateActivity(st, id, t) ==
    IF id \in DOMAIN st THEN [st EXCEPT ![id].LastActivity = t] ELSE st

\* make(map[string]*RouteConfig)
EmptyStore == [k \in {} |-> NoRoute]

\* Store.AddRoute(config): adds or overrides under config.ID; an empty ID is
\* replaced by uuid.New().String(), here `uuid`
AddRoute(st, config, uuid) ==
    LET id == IF config.ID = <<>> THEN uuid ELSE config.ID
    IN  [k \in DOMAIN st \cup {id} |->
            IF k = id THEN [config EXCEPT !.ID = id] ELSE st[k]]

\* Store.RemoveRoute(id)
RemoveRoute(st, id) == [k \in DOMAIN st \ {id} |-> st[k]]

\* the orders in which ranging over a Go map of these keys can visit them
Orders(keys) ==
    {f \in [1..Cardinality(keys) -> keys] :
        \A i, j \in 1..Cardinality(keys) : i # j => f[i] # f[j]}

\* Store.GetAllRoutes(): the slices a call can return, value copies of the
\* routes in the map's iteration order, which Go leaves unspecified
GetAllRoutes(st) ==
    {[i \in 1..Cardinality(DOMAIN st) |-> st[f[i]]] : f \in Orders(DOMAIN st)}

(***************************************************************************)
(* proxy: the matching loop of ServeHTTP                                   *)
(***************************************************************************)
\* hostMatches := route.Host == "" || route.Host == requestHost
HostMatches(route, reqHost) ==
    route.Host = <<>> \/ route.Host = NormalizeHost(reqHost)

\* isBetterMatch, for a route that passed the host and prefix test
IsBetterMatch(acc, route) ==
    IF ~acc.found THEN TRUE
    ELSE IF Len(route.Path) > Len(acc.matchedPath) THEN TRUE
    ELSE /\ Len(route.Path) = Len(acc.matchedPath)
         /\ route.Host # <<>>
         /\ acc.matchedRoute.Host = <<>>

\* one iteration of `for _, route := range routes`
MatchStep(acc, route, reqHost, path) ==
    IF HostMatches(route, reqHost) /\ HasPrefix(path, route.Path)
    THEN IF IsBetterMatch(acc, route)
         THEN [found |-> TRUE, matchedRoute |-> route, matchedPath |-> route.Path]
         ELSE acc
    ELSE acc

RECURSIVE MatchLoop(_, _, _, _)
MatchLoop(routes, acc, reqHost, path) ==
    IF routes = <<>> THEN acc
    ELSE MatchLoop(Tail(routes), MatchStep(acc, Head(routes), reqHost, path),
                   reqHost, path)

\* the whole loop over one snapshot: [found, matchedRoute, matchedPath]
MatchRoutes(routes, reqHost, path) ==
    MatchLoop(routes,
              [found |-> FALSE, matchedRoute |-> NoRoute, matchedPath |-> <<>>],
              reqHost, path)

\* deploymentsToCheck: the route's deployment, then each dependency's name
RECURSIVE DepNames(_)
DepNames(deps) ==
    IF deps = <<>> THEN <<>> ELSE <<Head(deps).Name>> \o DepNames(Tail(deps))

DeploymentsToCheck(route) == <<route.Deployment>> \o DepNames(route.Dependencies)

(***************************************************************************)
(* k8s: the Control Plane capability                                       *)
(***************************************************************************)
Deployments == {"web", "db"}

\* Client.GetDeploymentStatus(ns, name): (replicas, readyReplicas, err);
\* `fail` is whether the API call fails, which the caller cannot influence;
\* it always fails for a name that is no deployment
GetDeploymentStatus(name, fail) ==
    IF fail \/ name \notin DOMAIN cp
    THEN [err |-> TRUE, replicas |-> 0, readyReplicas |-> 0]
    ELSE [err |-> FALSE, replicas |-> cp[name].desired,
          readyReplicas |-> cp[name].ready]

\* a scale call that adds the replicas to those already desired
ScaleDeployment_Add(name, replicas, fail) ==
    IF fail \/ name \notin DOMAIN cp THEN cp
    ELSE [cp EXCEPT ![name].desired = @ + replicas]

\* Client.ScaleDeployment(ns, name, replicas): the deployments after the call
ScaleDeployment(name, replicas, fail) ==
    IF fail \/ name \notin DOMAIN cp THEN cp
    ELSE [cp EXCEPT ![name].desired = replicas]

\* h.k8sClient.ScaleDeployment(targetNs, depName, 1)
WakeReplicas == 1

\* what a status query showed, as the log of a request keeps it: the call
\* failed, desired replicas 0, none / some but not all / all of the desired
\* replicas ready
Observation(st) ==
    IF st.err THEN "Error"
    ELSE IF st.replicas = 0 THEN "Sleep"
    ELSE IF st.readyReplicas = 0 THEN "NoneReady"
    ELSE IF st.readyReplicas < st.replicas THEN "SomeReady"
    ELSE "Ready"

(***************************************************************************)
(* proxy: Handler.ServeHTTP, one record per request in progress            *)
(*   pc       where the goroutine stands                                   *)
(*   outcome  "notfound" (http.NotFound), "wait" (serveLoadingPage),       *)
(*            "forward" (proxy.ServeHTTP)                                  *)
(*   queries, scales, touched: the GetDeploymentStatus, ScaleDeployment    *)
(*            and UpdateActivity calls this request has made, in order     *)
(***************************************************************************)
Procs == {"h1"}

IdleCtx ==
    [pc |-> "idle", host |-> <<>>, path |-> <<>>, matchedRoute |-> NoRoute,
     deploymentsToCheck |-> <<>>, idx |-> 0, allReady |-> TRUE,
     outcome |-> "none", queries |-> <<>>, scales |-> <<>>, touched |-> <<>>]

\* the end of one iteration of `for _, depName := range deploymentsToCheck`:
\* the next entry, or after the last one `if !allReady { serveLoadingPage }`
\* and otherwise the proxying
Advance(c) ==
    IF c.idx + 1 > Len(c.deploymentsToCheck)
    THEN [c EXCEPT !.idx = c.idx + 1, !.pc = "done",
                   !.outcome = IF c.allReady THEN "forward" ELSE "wait"]
    ELSE [c EXCEPT !.idx = c.idx + 1, !.pc = "query"]

\* a loop body that marks a sleeping entry not ready without waking it
CheckEntry_SleepNoWake(c, st) ==
    IF st.err THEN Advance(c)
    ELSE IF st.replicas = 0 THEN Advance([c EXCEPT !.allReady = FALSE])
    ELSE IF st.readyReplicas = 0 THEN Advance([c EXCEPT !.allReady = FALSE])
    ELSE Advance(c)

\* a loop body that also wakes an entry that has no ready replica yet
CheckEntry_WakeNoneReady(c, st) ==
    IF st.err THEN Advance(c)
    ELSE IF st.replicas = 0 \/ st.readyReplicas = 0 THEN [c EXCEPT !.pc = "wake"]
    ELSE Advance(c)

\* the loop body after the status query returned st
CheckEntry(c, st) ==
    IF st.err THEN Advance(c)                              \* continue
    ELSE IF st.replicas = 0 THEN [c EXCEPT !.pc = "wake"]
    ELSE IF st.readyReplicas = 0 THEN Advance([c EXCEPT !.allReady = FALSE])
    ELSE Advance(c)

\* a handler without the `if !found` return: it goes on with the zero-value
\* matchedRoute
ReqStart_NoEarlyReturn(p, host, path) ==
    /\ hc[p].pc = "idle"
    /\ \E routes \in GetAllRoutes(store) :
         LET m == MatchRoutes(routes, host, path)
             c == [hc[p] EXCEPT !.host = host, !.path = path]
         IN  hc' = [hc EXCEPT ![p] =
                      [c EXCEPT !.pc = "touchId", !.matchedRoute = m.matchedRoute]]
    /\ UNCHANGED <<store, cp, now, probe, wc, sc, others>>

\* 1. Match Route, up to `if !found { http.NotFound }`
ReqStart(p, host, path) ==
    /\ hc[p].pc = "idle"
    /\ \E routes \in GetAllRoutes(store) :
         LET m == MatchRoutes(routes, host, path)
             c == [hc[p] EXCEPT !.host = host, !.path = path]
         IN  hc' = [hc EXCEPT ![p] =
                      IF ~m.found
                      THEN [c EXCEPT !.pc = "done", !.outcome = "notfound"]
                      ELSE [c EXCEPT !.pc = "touchId", !.matchedRoute = m.matchedRoute]]
    /\ UNCHANGED <<store, cp, now, probe, wc, sc, others>>

\* h.store.UpdateActivity(matchedRoute.ID)
ReqTouchId(p) ==
    /\ hc[p].pc = "touchId"
    /\ store' = UpdateActivity(store, hc[p].matchedRoute.ID, now)
    /\ hc' = [hc EXCEPT ![p].pc = "touchPath",
                        ![p].touched = Append(@, hc[p].matchedRoute.ID)]
    /\ UNCHANGED <<cp, now, probe, wc, sc, others>>

\* h.store.UpdateActivity(matchedRoute.Path), then deploymentsToCheck
ReqTouchPath(p) ==
    /\ hc[p].pc = "touchPath"
    /\ store' = UpdateActivity(store, hc[p].matchedRoute.Path, now)
    /\ hc' = [hc EXCEPT ![p].pc = "query",
                        ![p].touched = Append(@, hc[p].matchedRoute.Path),
                        ![p].deploymentsToCheck = DeploymentsToCheck(hc[p].matchedRoute),
                        ![p].idx = 1,
                        ![p].allReady = TRUE]
    /\ UNCHANGED <<cp, now, probe, wc, sc, others>>

\* h.k8sClient.GetDeploymentStatus(targetNs, depName) and what the loop body
\* decides from it
ReqQueryWith(p, fail) ==
    /\ hc[p].pc = "query"
    /\ LET c    == hc[p]
           name == c.deploymentsToCheck[c.idx]
           st   == GetDeploymentStatus(name, fail)
           c1   == [c EXCEPT !.queries = Append(@, Observation(st))]
       IN  hc' = [hc EXCEPT ![p] = CheckEntry(c1, st)]
    /\ UNCHANGED <<store, cp, now, probe, wc, sc, others>>

\* h.k8sClient.ScaleDeployment(targetNs, depName, 1); allReady = false
ReqWakeWith(p, fail) ==
    /\ hc[p].pc = "wake"
    /\ LET c    == hc[p]
           name == c.deploymentsToCheck[c.idx]
       IN  /\ cp' = ScaleDeployment(name, WakeReplicas, fail)
           /\ hc' = [hc EXCEPT ![p] =
                       Advance([c EXCEPT !.allReady = FALSE,
                                         !.scales = Append(@,
                                             [name |-> name, replicas |-> WakeReplicas,
                                              idx |-> c.idx])])]
    /\ UNCHANGED <<store, now, probe, wc, sc, others>>

\* the two calls, each of which the API server may fail
ReqQuery(p) == \E fail \in BOOLEAN : ReqQueryWith(p, fail)

ReqWake(p) == \E fail \in BOOLEAN : ReqWakeWith(p, fail)

\* the response is written and the goroutine ends
ReqDone(p) ==
    /\ hc[p].pc = "done"
    /\ hc' = [hc EXCEPT ![p] = IdleCtx]
    /\ UNCHANGED <<store, cp, now, probe, wc, sc, others>>

(***************************************************************************)
(* the environment: the cluster                                            *)
(***************************************************************************)
\* the deployment controller starts or stops one pod
CPProgress(d) ==
    /\ cp[d].ready # cp[d].desired
    /\ cp' = [cp EXCEPT ![d].ready =
                 IF cp[d].ready < cp[d].desired THEN @ + 1 ELSE @ - 1]
    /\ UNCHANGED <<store, now, hc, probe, wc, sc, others>>

\* another client of the cluster scales the deployment
ExtScale(d, n) ==
    /\ n # cp[d].desired
    /\ cp' = [cp EXCEPT ![d].desired = n]
    /\ UNCHANGED <<store, now, hc, probe, wc, sc, others>>

(***************************************************************************)
(* the registries the server starts with (LoadFromFile) and the requests   *)
(***************************************************************************)
DepConfigs == [Name : Deployments, StopOnIdle : {TRUE}]

RECURSIVE SeqsUpTo(_, _)
SeqsUpTo(S, n) ==
    IF n = 0 THEN {<<>>}
    ELSE LET shorter == SeqsUpTo(S, n - 1)
         IN  shorter \cup {Append(q, x) : q \in shorter, x \in S}

DepLists == SeqsUpTo(DepConfigs, MaxDeps)

\* a route for /a on any host, with its dependencies
RouteApp(deps) ==
    [ID |-> <<"r">>, Host |-> <<>>, Path |-> <<"/", "a">>, Deployment |-> "web",
     Dependencies |-> deps, IdleTimeout |-> 1, LastActivity |-> 0]

\* a route for host h whose ID a client chose to be "/a"
RouteSite ==
    [ID |-> <<"/", "a">>, Host |-> <<"h">>, Path |-> <<"/">>, Deployment |-> "db",
     Dependencies |-> <<>>, IdleTimeout |-> 1, LastActivity |-> 0]

StoreOf(routes) == [id \in {r.ID : r \in routes} |-> CHOOSE r \in routes : r.ID = id]

InitialStores ==
    {StoreOf({RouteApp(deps)}) : deps \in DepLists}
    \cup {StoreOf({RouteApp(deps), RouteSite}) : deps \in DepLists}

\* the requests: r.Host and r.URL.Path
Requests ==
    {[host |-> <<"h", ":", "1">>, path |-> <<"/">>],
     [host |-> <<"h", ":", "1">>, path |-> <<"/", "a", "b">>],
     [host |-> <<"g">>, path |-> <<"/">>]}

NoProbe == [host |-> <<>>, path |-> <<>>, sel |-> <<>>]

\* the watcher between two ticks: no snapshot, nothing done
IdleWatch == [pc |-> "sleep", routes |-> <<>>, i |-> 0, j |-> 0, log |-> <<>>]

\* no request under way, the mutex free, nothing held, and no ingress
Clients == {"a", "b"}

IdleRq ==
    [pc |-> "idle", matchedRoute |-> NoRoute, deploymentsToCheck |-> <<>>,
     idx |-> 0, allReady |-> TRUE, outcome |-> "none", obs |-> "none",
     woke |-> {}, failed |-> {}, prevFailed |-> {}]

FreeLock == [w |-> "", r |-> {}]

\* the Ingress objects of the namespace
IngressNames == {"x", "y"}

\* no such Ingress.  service, port: the backend of its first rule's first
\* path; patched, originalService, configPort: the annotations
\* smart-proxy/patched, smart-proxy/original-service and the targetPort of
\* smart-proxy/config; before: the backend when the last patch began;
\* restored: unpatched since; config: the route definition in the annotation
\* smart-proxy/config, NoRoute when the annotation is absent
NoBackend == [service |-> "", port |-> 0]

NoIngress ==
    [exists |-> FALSE, service |-> "", port |-> 0, patched |-> FALSE,
     originalService |-> "", configPort |-> 0, before |-> NoBackend,
     restored |-> FALSE, config |-> NoRoute]

\* time.NewTicker: no tick waits in ticker.C, the loop waits to receive
\*   pending  a tick waits in ticker.C, a channel of capacity 1
\*   missed   the ticker has dropped a tick because one was waiting
\*   loop     "recv" at `for range ticker.C`, "scan" inside checkIdleRoutes
\*   scans    the calls of checkIdleRoutes that have not returned
IdleTicker == [pending |-> FALSE, missed |-> FALSE, loop |-> "recv", scans |-> 0]

\* NewMetrics(), and no request about to be forwarded
\*   pc[c]   "idle", "load" / "store" (TotalRequests++), "loadRoute" /
\*           "storeRoute" (RouteStats[ID]++)
\*   id[c]   matchedRoute.ID of the request;  reg[c]  the value it loaded
\*   started    the requests that have come to the counting
\*   forwarded  those that have passed it;  routed  those of them whose
\*              route has a non-empty id
NoMetrics ==
    [TotalRequests |-> 0, RouteStats |-> [k \in {} |-> 0],
     pc |-> [c \in Clients |-> "idle"], id |-> [c \in Clients |-> <<>>],
     reg |-> [c \in Clients |-> 0],
     started |-> 0, forwarded |-> 0, routed |-> 0]

\* the goroutines that log, and those that follow the log (admin log stream)
Loggers == {"g1", "g2"}
Followers == {"f1", "f2"}

\* logger.Get(): no subscriber
\*   w             the goroutine inside l.mu.Lock() ... Unlock(), or ""
\*   subscribers   the channels in l.subscribers, named after their follower
\*   ch[f]         the channel of follower f: state "none", "open" or
\*                 "closed", and the number of entries in its buffer
\*   pc, todo      where each goroutine stands, and the subscribers its
\*                 broadcast has still to go through
\*   sentClosed    a send hit a closed channel (a panic)
\*   dropped       an entry was dropped for a subscriber whose buffer was full
NoLogger ==
    [w |-> "", subscribers |-> {},
     ch |-> [f \in Followers |-> [state |-> "none", len |-> 0]],
     pc |-> [g \in Loggers \cup Followers |-> "idle"],
     todo |-> [g \in Loggers |-> {}],
     sentClosed |-> FALSE, dropped |-> FALSE]

\* the process after main has built its parts: the client k8s.NewClient
\* returned, the process running
Running == [client |-> "ok", state |-> "running"]

InitOthers ==
    /\ rq = [c \in Clients |-> IdleRq]
    /\ mu = FreeLock
    /\ held = {}
    /\ ing = [n \in IngressNames |-> NoIngress]
    /\ tk = IdleTicker
    /\ mt = NoMetrics
    /\ lg = NoLogger
    /\ proc = Running

\* no poll made yet
IdlePoll ==
    [pc |-> "idle", host |-> <<>>, path |-> <<>>, matchedRoute |-> NoRoute,
     deploymentsToCheck |-> <<>>, idx |-> 0, allReady |-> TRUE,
     outcome |-> "none", status |-> "", details |-> <<>>, queries |-> <<>>,
     scales |-> <<>>]

Init ==
    /\ store \in InitialStores
    /\ cp = [d \in Deployments |-> [desired |-> 0, ready |-> 0]]
    /\ now = 1
    /\ hc = [p \in Procs |-> IdleCtx]
    /\ probe = NoProbe
    /\ wc = IdleWatch
    /\ sc = IdlePoll
    /\ InitOthers

Next ==
    \/ \E p \in Procs, r \in Requests : ReqStart(p, r.host, r.path)
    \/ \E p \in Procs : ReqTouchId(p)
    \/ \E p \in Procs : ReqTouchPath(p)
    \/ \E p \in Procs : ReqQuery(p)
    \/ \E p \in Procs : ReqWake(p)
    \/ \E p \in Procs : ReqDone(p)
    \/ \E d \in Deployments : CPProgress(d)
    \/ \E d \in Deployments, n \in 0..MaxReplicas : ExtScale(d, n)

Spec == Init /\ [][Next]_vars

(***************************************************************************)
(* What the claims speak of                                                *)
(***************************************************************************)
\* the request of p has been answered
Answered(p) == hc[p].pc = "done"

\* the request of p matched a route and went through the readiness check
Checked(p) == Answered(p) /\ hc[p].outcome \in {"wait", "forward"}

\* the positions of the check list that name workload d
EntriesOf(c, d) == {i \in 1..Len(c.deploymentsToCheck) : c.deploymentsToCheck[i] = d}

\* the scale calls of the request that asked for n replicas of workload d
ScaleCalls(c, d, n) ==
    {k \in 1..Len(c.scales) : c.scales[k].name = d /\ c.scales[k].replicas = n}

\* a route is a candidate for host/path as the handler decides it
Candidates(st, host, path) ==
    {id \in DOMAIN st : HostMatches(st[id], host) /\ HasPrefix(path, st[id].Path)}

(* C1: a matched request is forwarded only if every entry of the check     *)
(* list was observed Ready (query succeeded, desired > 0, ready >=         *)
(* desired); in every other case it gets the wait response.                *)
C1_ForwardOnlyWhenAllReady ==
    \A p \in Procs :
        Checked(p) =>
            LET c == hc[p]
                everyReady == /\ Len(c.queries) = Len(c.deploymentsToCheck)
                              /\ \A i \in 1..Len(c.queries) : c.queries[i] = "Ready"
            IN  (c.outcome = "forward") <=> everyReady

(* C2: a status query that fails for one entry makes the aggregate not     *)
(* ready (wait response, no forward), and the remaining entries are still  *)
(* queried.                                                                *)
C2_QueryErrorMeansWait ==
    \A p \in Procs :
        LET c == hc[p] IN
        (Checked(p) /\ \E i \in 1..Len(c.queries) : c.queries[i] = "Error")
            => /\ c.outcome = "wait"
               /\ Len(c.queries) = Len(c.deploymentsToCheck)

(* C3: an entry with desired > 0 and ready < desired, the case             *)
(* 0 < ready < desired included, makes the aggregate not ready: the        *)
(* request gets the wait response and is not forwarded.                    *)
C3_ScalingMeansWait ==
    \A p \in Procs :
        LET c == hc[p] IN
        (Checked(p) /\ \E i \in 1..Len(c.queries) :
                           c.queries[i] \in {"NoneReady", "SomeReady"})
            => c.outcome = "wait"

(* C4 as stated: when the handler matches a route and finds its deployment *)
(* at desired replicas 0, it issues exactly one scale-to-1 request for     *)
(* that deployment during the request, and the request gets the wait       *)
(* response.                                                               *)
C4_ExactlyOneWake ==
    \A p \in Procs :
        LET c == hc[p]
            d == c.matchedRoute.Deployment
        IN  (Checked(p) /\ c.queries[1] = "Sleep")
                => /\ c.outcome = "wait"
                   /\ Cardinality(ScaleCalls(c, d, 1)) = 1

(* C4, amended: when the handler matches a route and finds its deployment  *)
(* at desired replicas 0, the request gets the wait response and the       *)
(* handler issues one scale-to-1 request for that deployment for each      *)
(* check-list entry naming it that it observed at desired replicas 0:      *)
(* exactly one unless the route lists its own deployment among its         *)
(* dependencies.                                                           *)
C4_OneWakePerSleepingEntry ==
    \A p \in Procs :
        LET c == hc[p]
            d == c.matchedRoute.Deployment
            asleep == {i \in EntriesOf(c, d) : c.queries[i] = "Sleep"}
        IN  (Checked(p) /\ c.queries[1] = "Sleep")
                => /\ c.outcome = "wait"
                   /\ Cardinality(ScaleCalls(c, d, 1)) = Cardinality(asleep)
                   /\ EntriesOf(c, d) = {1} => Cardinality(ScaleCalls(c, d, 1)) = 1

\* a request answered after it found its deployment asleep and woke it once
C4_Witness ==
    \E p \in Procs :
        /\ Checked(p)
        /\ hc[p].queries[1] = "Sleep"
        /\ hc[p].outcome = "wait"
        /\ Cardinality(ScaleCalls(hc[p], hc[p].matchedRoute.Deployment, 1)) = 1

(* C5: the handler issues a scale request for a check-list entry only when *)
(* that entry's query showed desired replicas 0, and always for 1 replica; *)
(* entries observed with desired > 0 get no scale call, so a ready main    *)
(* workload with one sleeping dependency yields a wake for the dependency  *)
(* only.                                                                   *)
C5_ScaleOnlySleepingEntries ==
    \A p \in Procs :
        LET c == hc[p] IN
        /\ \A k \in 1..Len(c.scales) :
              LET s == c.scales[k] IN
              /\ s.replicas = 1
              /\ s.idx \in 1..Len(c.queries)
              /\ c.queries[s.idx] = "Sleep"
              /\ s.name = c.deploymentsToCheck[s.idx]
              /\ \A j \in 1..Len(c.scales) : c.scales[j].idx = s.idx => j = k
        /\ (Checked(p) /\ c.queries = <<"Ready", "Sleep">>)
              => c.scales = <<[name |-> c.deploymentsToCheck[2], replicas |-> 1, idx |-> 2]>>

\* a request answered: main workload ready, its one dependency woken
C5_Witness ==
    \E p \in Procs :
        /\ Checked(p)
        /\ hc[p].queries = <<"Ready", "Sleep">>
        /\ hc[p].deploymentsToCheck[1] # hc[p].deploymentsToCheck[2]
        /\ Len(hc[p].scales) = 1

(* C9: when no route matches a request the handler answers not-found and   *)
(* makes no activity update, no status query and no scale request; and it  *)
(* answers not-found only then.                                            *)
C9_NotFoundHasNoEffects ==
    \A p \in Procs :
        LET c == hc[p] IN
        Answered(p) =>
            /\ (c.outcome = "notfound") <=> (Candidates(store, c.host, c.path) = {})
            /\ (c.outcome = "notfound") =>
                   c.touched = <<>> /\ c.queries = <<>> /\ c.scales = <<>>

\* a request no route matched, answered with not-found
C9_Witness ==
    \E p \in Procs :
        /\ Answered(p)
        /\ DOMAIN store # {}
        /\ Candidates(store, hc[p].host, hc[p].path) = {}
        /\ hc[p].outcome = "notfound"

\* the UpdateActivity calls of the request that found a route under their key
Hits(c) == SelectSeq(c.touched, LAMBDA id : id \in DOMAIN store)

(* C10: each matched request updates lastActivity exactly once and only    *)
(* for the matched route, identified by its id, whether it is forwarded or *)
(* answered with the wait response; no other route's lastActivity changes. *)
C10_OneActivityUpdate ==
    \A p \in Procs :
        Checked(p) => Hits(hc[p]) = <<hc[p].matchedRoute.ID>>

(***************************************************************************)
(* A registry built through the admin API, and a poll client that repeats  *)
(* the matching pass (handleStatusCheck runs the same loop as ServeHTTP)   *)
(* for one host/path.                                                      *)
(***************************************************************************)
\* the values uuid.New().String() returns
UUIDs == {<<"u", "1">>, <<"u", "2">>}

RouteHosts == {<<>>, <<"h">>, <<"[", ":", "]">>}
RoutePaths == {<<"/">>, <<"/", "a">>}

\* the route definitions a client posts: with or without an id
PostedRoutes ==
    [ID : {<<>>, <<"r">>}, Host : RouteHosts, Path : RoutePaths,
     Deployment : {"web"}, Dependencies : {<<>>}, IdleTimeout : {1},
     LastActivity : {0}]

\* the host and path parameters of a poll
PollHosts ==
    {<<"h">>, <<"h", ":", "1">>, <<"g">>,
     <<"[", ":", "]">>, <<"[", ":", "]", ":", "1">>}
PollPaths == {<<"/">>, <<"/", "a", "b">>}

\* POST /api/routes
AdminAddRoute(config) ==
    /\ config.Path # <<>> /\ config.Deployment # ""
    /\ \E uuid \in UUIDs \ DOMAIN store :
         /\ Cardinality(DOMAIN AddRoute(store, config, uuid)) <= MaxRoutes
         /\ store' = AddRoute(store, config, uuid)
    /\ probe' = NoProbe
    /\ UNCHANGED <<cp, now, hc, wc, sc, others>>

\* DELETE /api/routes?id=
AdminRemoveRoute(id) ==
    /\ id \in DOMAIN store
    /\ store' = RemoveRoute(store, id)
    /\ probe' = NoProbe
    /\ UNCHANGED <<cp, now, hc, wc, sc, others>>

\* one matching pass for host/path; probe.sel keeps what each pass selected
\* since the registry last changed
PollMatch(host, path) ==
    /\ Len(probe.sel) < MaxProbes
    /\ probe.sel = <<>> \/ (probe.host = host /\ probe.path = path)
    /\ \E routes \in GetAllRoutes(store) :
         probe' = [host |-> host, path |-> path,
                   sel |-> Append(probe.sel, MatchRoutes(routes, host, path))]
    /\ UNCHANGED <<store, cp, now, hc, wc, sc, others>>

\* the client turns to another host/path
PollReset ==
    /\ probe.sel # <<>>
    /\ probe' = NoProbe
    /\ UNCHANGED <<store, cp, now, hc, wc, sc, others>>

InitMatch ==
    /\ store = EmptyStore
    /\ cp = [d \in Deployments |-> [desired |-> 0, ready |-> 0]]
    /\ now = 1
    /\ hc = [p \in Procs |-> IdleCtx]
    /\ probe = NoProbe
    /\ wc = IdleWatch
    /\ sc = IdlePoll
    /\ InitOthers

NextMatch ==
    \/ \E config \in PostedRoutes : AdminAddRoute(config)
    \/ \E id \in {<<"r">>} \cup UUIDs : AdminRemoveRoute(id)
    \/ \E host \in PollHosts, path \in PollPaths : PollMatch(host, path)
    \/ PollReset

SpecMatch == InitMatch /\ [][NextMatch]_vars

\* the routes of the registry that are candidates for host/path
CandidateRoutes(st, host, path) == {st[id] : id \in Candidates(st, host, path)}

(* C6: among all routes that match, the matcher selects one with the       *)
(* longest pathPrefix and, among those of that length, one with a          *)
(* non-empty host whenever there is one; the selected route does not       *)
(* depend on the order in which the snapshot lists the routes.             *)
C6_BestMatchWhateverTheOrder ==
    \A k \in 1..Len(probe.sel) :
        LET m     == probe.sel[k]
            cands == CandidateRoutes(store, probe.host, probe.path)
        IN  /\ m.found <=> cands # {}
            /\ m.found =>
                 /\ m.matchedRoute \in cands
                 /\ \A r \in cands : Len(r.Path) <= Len(m.matchedRoute.Path)
                 /\ (\E r \in cands : /\ Len(r.Path) = Len(m.matchedRoute.Path)
                                      /\ r.Host # <<>>)
                        => m.matchedRoute.Host # <<>>
            /\ \A routes \in GetAllRoutes(store) :
                 MatchRoutes(routes, probe.host, probe.path) = m

\* the part of C6 the loop does guarantee: longest prefix, then specific host
MatchPriorities ==
    \A k \in 1..Len(probe.sel) :
        LET m     == probe.sel[k]
            cands == CandidateRoutes(store, probe.host, probe.path)
        IN  /\ m.found <=> cands # {}
            /\ m.found =>
                 /\ m.matchedRoute \in cands
                 /\ \A r \in cands : Len(r.Path) <= Len(m.matchedRoute.Path)
                 /\ (\E r \in cands : /\ Len(r.Path) = Len(m.matchedRoute.Path)
                                      /\ r.Host # <<>>)
                        => m.matchedRoute.Host # <<>>

Digits == {"0", "1", "2", "3", "4", "5", "6", "7", "8", "9"}

\* a Host value with its :port suffix, if it has one, removed
StripPort(h) ==
    LET i == LastIndexByte(h, ":")
    IN  IF i > 0 /\ \A j \in (i + 1)..Len(h) : h[j] \in Digits
        THEN SubSeq(h, 1, i - 1)
        ELSE h

(* C7: a route is a candidate for a request exactly when (route.host is    *)
(* empty or equals the request Host with any :port suffix stripped) and    *)
(* the request path starts with route.pathPrefix; a request that no route  *)
(* satisfies has no match.                                                 *)
C7_CandidateIffHostAndPrefix ==
    \A k \in 1..Len(probe.sel) :
        LET m == probe.sel[k]
            satisfies(r) == /\ r.Host = <<>> \/ r.Host = StripPort(probe.host)
                            /\ HasPrefix(probe.path, r.Path)
        IN  /\ m.found <=> \E id \in DOMAIN store : satisfies(store[id])
            /\ m.found => satisfies(m.matchedRoute)

(* C8: matching is a pure function of (registry, host, path): two passes   *)
(* for the same request with no registry change in between select the     *)
(* same route, for every registry the admin API can build.                 *)
C8_SameRequestSameRoute ==
    \A i, j \in 1..Len(probe.sel) : probe.sel[i] = probe.sel[j]

(***************************************************************************)
(* watcher: Watcher.Start and checkIdleRoutes                              *)
(*   wc.routes  the snapshot of the tick, wc.i the route it stands at,     *)
(*   wc.j       the dependency it stands at                                *)
(*   wc.log     what the tick has done, in order: for each route a "visit" *)
(*              (n: the time at which time.Since was taken), then its      *)
(*              "query" (n: the desired replicas returned) and its "scale" *)
(*              calls (n: the replicas asked for; dep: 0 for the route's   *)
(*              deployment, k for its k-th dependency)                     *)
(***************************************************************************)
\* a watcher that takes a route for idle as soon as its timeout is reached
IsIdle_NonStrict(route, t) == t - route.LastActivity >= route.IdleTimeout

\* time.Since(route.LastActivity) > timeout, taken at time t
IsIdle(route, t) == t - route.LastActivity > route.IdleTimeout

LogEntry(kind, i, dep, name, n, ok) ==
    [kind |-> kind, route |-> i, dep |-> dep, name |-> name, n |-> n, ok |-> ok]

\* the end of one iteration of `for _, route := range routes`; after the last
\* one checkIdleRoutes returns and the goroutine waits for the ticker
NextRoute(w) ==
    IF w.i + 1 > Len(w.routes)
    THEN [w EXCEPT !.i = w.i + 1, !.j = 0, !.pc = "sleep"]
    ELSE [w EXCEPT !.i = w.i + 1, !.j = 0, !.pc = "route"]

\* the end of one iteration of `for _, dep := range route.Dependencies`
NextDep(w) ==
    IF w.j + 1 > Len(w.routes[w.i].Dependencies)
    THEN NextRoute(w)
    ELSE [w EXCEPT !.j = w.j + 1, !.pc = "dep"]

\* the ticker fires: routes := w.store.GetAllRoutes()
WatchStart ==
    /\ wc.pc = "sleep"
    /\ \E routes \in GetAllRoutes(store) :
         wc' = NextRoute([pc |-> "sleep", routes |-> routes, i |-> 0, j |-> 0,
                          log |-> <<>>])
    /\ UNCHANGED <<store, cp, now, hc, probe, sc, others>>

\* a watcher that stops the deployment of an idle route whatever its
\* desired replicas
WatchRouteWith_AlwaysStop(fail) ==
    /\ wc.pc = "route"
    /\ LET route == wc.routes[wc.i]
           seen  == [wc EXCEPT !.log = Append(@,
                        LogEntry("visit", wc.i, 0, "", now, TRUE))]
           st    == GetDeploymentStatus(route.Deployment, fail)
           asked == [seen EXCEPT !.log = Append(@,
                        LogEntry("query", wc.i, 0, route.Deployment,
                                 st.replicas, ~st.err))]
       IN  wc' = IF ~IsIdle(route, now) THEN NextRoute(seen)
                 ELSE IF st.err THEN NextRoute(asked)
                 ELSE [asked EXCEPT !.pc = "main"]
    /\ UNCHANGED <<store, cp, now, hc, probe, sc, others>>

\* one route of the snapshot: the idle test and, for an idle route, the
\* status query of its deployment and the branch on its result
WatchRouteWith(fail) ==
    /\ wc.pc = "route"
    /\ LET route == wc.routes[wc.i]
           seen  == [wc EXCEPT !.log = Append(@,
                        LogEntry("visit", wc.i, 0, "", now, TRUE))]
           st    == GetDeploymentStatus(route.Deployment, fail)
           asked == [seen EXCEPT !.log = Append(@,
                        LogEntry("query", wc.i, 0, route.Deployment,
                                 st.replicas, ~st.err))]
       IN  wc' = IF ~IsIdle(route, now) THEN NextRoute(seen)
                 ELSE IF st.err THEN NextRoute(asked)               \* continue
                 ELSE IF st.replicas > 0 THEN [asked EXCEPT !.pc = "main"]
                 ELSE NextRoute(asked)
    /\ UNCHANGED <<store, cp, now, hc, probe, sc, others>>

\* w.k8sClient.ScaleDeployment(route.Namespace, route.Deployment, 0)
WatchScaleMainWith(fail) ==
    /\ wc.pc = "main"
    /\ LET route == wc.routes[wc.i]
       IN  /\ cp' = ScaleDeployment(route.Deployment, 0, fail)
           /\ wc' = NextDep([wc EXCEPT !.log = Append(@,
                        LogEntry("scale", wc.i, 0, route.Deployment, 0, ~fail))])
    /\ UNCHANGED <<store, now, hc, probe, sc, others>>

\* a watcher that stops every dependency of an idle route
StopsDep_Always(dep) == TRUE

\* if dep.StopOnIdle
StopsDep(dep) == dep.StopOnIdle

\* one dependency of the route: ScaleDeployment(route.Namespace, dep.Name, 0)
\* if it is to stop on idle
WatchScaleDepWith(fail) ==
    /\ wc.pc = "dep"
    /\ LET dep == wc.routes[wc.i].Dependencies[wc.j]
       IN  IF StopsDep(dep)
           THEN /\ cp' = ScaleDeployment(dep.Name, 0, fail)
                /\ wc' = NextDep([wc EXCEPT !.log = Append(@,
                             LogEntry("scale", wc.i, wc.j, dep.Name, 0, ~fail))])
           ELSE /\ cp' = cp
                /\ wc' = NextDep(wc)
    /\ UNCHANGED <<store, now, hc, probe, sc, others>>

\* each call may fail
WatchRoute == \E fail \in BOOLEAN : WatchRouteWith(fail)

WatchScaleMain == \E fail \in BOOLEAN : WatchScaleMainWith(fail)

WatchScaleDep == \E fail \in BOOLEAN : WatchScaleDepWith(fail)

\* time passes
Tick ==
    /\ now < MaxTime
    /\ now' = now + 1
    /\ UNCHANGED <<store, cp, hc, probe, wc, sc, others>>

(***************************************************************************)
(* The watcher alone, on registries loaded from a file: dependencies that  *)
(* stop on idle or not, routes last active at different times, and every   *)
(* replica state.                                                          *)
(***************************************************************************)
IdleDepConfigs == [Name : Deployments, StopOnIdle : BOOLEAN]

IdleDepLists == SeqsUpTo(IdleDepConfigs, MaxDeps)

\* the last_activity values of the file
ActivityTimes == {0, 1}

LastActiveAt(route, t) == [route EXCEPT !.LastActivity = t]

IdleStores ==
    {StoreOf({LastActiveAt(RouteApp(deps), t)}) :
        deps \in IdleDepLists, t \in ActivityTimes}
    \cup {StoreOf({LastActiveAt(RouteApp(deps), t), LastActiveAt(RouteSite, u)}) :
        deps \in IdleDepLists, t \in ActivityTimes, u \in ActivityTimes}

\* the deployments run all their desired replicas, whatever that number is
SettledClusters ==
    {[d \in Deployments |-> [desired |-> n[d], ready |-> n[d]]] :
        n \in [Deployments -> 0..MaxReplicas]}

InitIdle ==
    /\ store \in IdleStores
    /\ cp \in SettledClusters
    /\ now = 1
    /\ hc = [p \in Procs |-> IdleCtx]
    /\ probe = NoProbe
    /\ wc = IdleWatch
    /\ sc = IdlePoll
    /\ InitOthers

NextIdle ==
    \/ WatchStart
    \/ WatchRoute
    \/ WatchScaleMain
    \/ WatchScaleDep
    \/ Tick

SpecIdle == InitIdle /\ [][NextIdle]_vars

(***************************************************************************)
(* What the claims about the watcher speak of                              *)
(***************************************************************************)
\* checkIdleRoutes has returned
TickDone == wc.pc = "sleep" /\ wc.i > 0

\* the positions of the tick's log that are of this kind, for route i
LogOf(kind, i) ==
    {k \in 1..Len(wc.log) : wc.log[k].kind = kind /\ wc.log[k].route = i}

\* the tick found route i idle
FoundIdle(i) ==
    \E k \in LogOf("visit", i) : IsIdle(wc.routes[i], wc.log[k].n)

\* the tick found route i idle and its deployment at desired replicas > 0
FoundRunning(i) ==
    /\ FoundIdle(i)
    /\ \E k \in LogOf("query", i) : wc.log[k].ok /\ wc.log[k].n > 0

\* the scale-to-zero requests made for route i that name workload d
StopsOf(i, d) == {k \in LogOf("scale", i) : wc.log[k].name = d /\ wc.log[k].n = 0}

\* the scale-to-zero requests made for route i at its deployment (dep = 0) or
\* its dep-th dependency
StopsAt(i, dep) == {k \in LogOf("scale", i) : wc.log[k].dep = dep /\ wc.log[k].n = 0}

\* the workloads of the route have different names
DistinctWorkloads(route) ==
    LET names == DeploymentsToCheck(route)
    IN  \A a, b \in 1..Len(names) : a # b => names[a] # names[b]

(* C11 as stated: on a tick, for an idle route whose deployment has desired *)
(* replicas > 0, the watcher issues exactly one scale-to-zero request for  *)
(* the deployment, one for each dependency with stopOnIdle = true and none *)
(* for a dependency with stopOnIdle = false.                               *)
C11_OneStopPerWorkload ==
    TickDone =>
        \A i \in 1..Len(wc.routes) :
            LET route == wc.routes[i]
                deps  == route.Dependencies
            IN  FoundRunning(i) =>
                  /\ Cardinality(StopsOf(i, route.Deployment)) = 1
                  /\ \A j \in 1..Len(deps) :
                        IF deps[j].StopOnIdle
                        THEN Cardinality(StopsOf(i, deps[j].Name)) = 1
                        ELSE StopsOf(i, deps[j].Name) = {}

(* C11, amended: on a tick, for an idle route whose deployment the watcher *)
(* finds at desired replicas > 0, it issues one scale-to-zero request for  *)
(* the deployment, one for each dependency entry with stopOnIdle = true    *)
(* and none for an entry with stopOnIdle = false, and no other scale       *)
(* request; per workload that is exactly one or none when the route's      *)
(* deployment and dependencies have different names.                       *)
C11_OneStopPerEntry ==
    TickDone =>
        \A i \in 1..Len(wc.routes) :
            LET route == wc.routes[i]
                deps  == route.Dependencies
            IN  FoundRunning(i) =>
                  /\ Cardinality(StopsAt(i, 0)) = 1
                  /\ \A k \in StopsAt(i, 0) : wc.log[k].name = route.Deployment
                  /\ \A j \in 1..Len(deps) :
                        /\ Cardinality(StopsAt(i, j)) = IF deps[j].StopOnIdle THEN 1 ELSE 0
                        /\ \A k \in StopsAt(i, j) : wc.log[k].name = deps[j].Name
                  /\ \A k \in LogOf("scale", i) :
                        wc.log[k].n = 0 /\ wc.log[k].dep \in 0..Len(deps)
                  /\ DistinctWorkloads(route) =>
                        /\ Cardinality(StopsOf(i, route.Deployment)) = 1
                        /\ \A j \in 1..Len(deps) :
                              Cardinality(StopsOf(i, deps[j].Name)) =
                                  IF deps[j].StopOnIdle THEN 1 ELSE 0

\* a tick that stopped the deployment of an idle route and left its
\* dependency, which is not to stop on idle, alone
C11_Witness ==
    /\ TickDone
    /\ \E i \in 1..Len(wc.routes) :
         LET route == wc.routes[i] IN
         /\ FoundRunning(i)
         /\ Len(route.Dependencies) = 1
         /\ ~route.Dependencies[1].StopOnIdle
         /\ route.Dependencies[1].Name # route.Deployment
         /\ Cardinality(StopsOf(i, route.Deployment)) = 1
         /\ cp[route.Dependencies[1].Name].desired > 0

\* the tick's status query for route i succeeded
QueryOk(i) == \E k \in LogOf("query", i) : wc.log[k].ok

\* every dependency of route i that is to stop on idle got its
\* scale-to-zero request
DepsStopped(i) ==
    \A j \in 1..Len(wc.routes[i].Dependencies) :
        wc.routes[i].Dependencies[j].StopOnIdle => StopsAt(i, j) # {}

(* C12: on a tick, for an idle route, every dependency with stopOnIdle =   *)
(* true receives a scale-to-zero request whatever the deployment's desired *)
(* replicas, also when they are already 0.                                 *)
C12_DepsStoppedWhateverMain ==
    TickDone =>
        \A i \in 1..Len(wc.routes) :
            (FoundIdle(i) /\ QueryOk(i)) => DepsStopped(i)

(* C13: within one tick a failed status query or a failed scale request    *)
(* for one workload keeps the watcher neither from the remaining workloads *)
(* of the same route, its stopOnIdle dependencies, nor from the remaining  *)
(* routes of the snapshot.                                                 *)
C13_ErrorsDoNotStopTheTick ==
    TickDone =>
        \A i \in 1..Len(wc.routes) :
            /\ LogOf("visit", i) # {}
            /\ FoundIdle(i) => LogOf("query", i) # {}
            /\ (FoundIdle(i) /\ ~QueryOk(i)) => DepsStopped(i)
            /\ (\E k \in LogOf("scale", i) : ~wc.log[k].ok) => DepsStopped(i)

\* the part of C13 the watcher does guarantee: the remaining routes are
\* processed, and a failed scale request does not end the route
ScaleErrorsDoNotStopTheTick ==
    TickDone =>
        \A i \in 1..Len(wc.routes) :
            /\ LogOf("visit", i) # {}
            /\ FoundIdle(i) => LogOf("query", i) # {}
            /\ (\E k \in LogOf("scale", i) : ~wc.log[k].ok) => DepsStopped(i)

(* C14: on a tick, a route whose idle time, now minus the lastActivity of  *)
(* the snapshot, is less than or equal to its idleTimeout causes no status *)
(* query and no scale request for its deployment or dependencies.          *)
C14_FreshRouteLeftAlone ==
    \A i \in 1..Len(wc.routes) :
        \A k \in LogOf("visit", i) :
            wc.log[k].n - wc.routes[i].LastActivity <= wc.routes[i].IdleTimeout
                => LogOf("query", i) = {} /\ LogOf("scale", i) = {}

\* a tick that visited a route exactly idleTimeout after its last activity,
\* with its deployment running, and went on to the next route
C14_Witness ==
    /\ TickDone
    /\ \E i \in 1..Len(wc.routes) :
         /\ \E k \in LogOf("visit", i) :
               wc.log[k].n - wc.routes[i].LastActivity = wc.routes[i].IdleTimeout
         /\ LogOf("query", i) = {}
         /\ cp[wc.routes[i].Deployment].desired > 0
         /\ \E h \in 1..Len(wc.routes) : h # i /\ LogOf("query", h) # {}

(***************************************************************************)
(* The watcher next to the request handler: requests keep routes active    *)
(* while the ticks go on.  Every deployment runs one replica at the start. *)
(***************************************************************************)
\* the route for host h under an id that is no route's path
RouteShop == [RouteSite EXCEPT !.ID = <<"s">>]

ChainStores == {StoreOf({RouteApp(deps), RouteShop}) : deps \in DepLists}

InitChain ==
    /\ store \in ChainStores
    /\ cp = [d \in Deployments |-> [desired |-> 1, ready |-> 1]]
    /\ now = 1
    /\ hc = [p \in Procs |-> IdleCtx]
    /\ probe = NoProbe
    /\ wc = IdleWatch
    /\ sc = IdlePoll
    /\ InitOthers

NextChain ==
    \/ \E p \in Procs, r \in Requests : ReqStart(p, r.host, r.path)
    \/ \E p \in Procs : ReqTouchId(p)
    \/ \E p \in Procs : ReqTouchPath(p)
    \/ \E p \in Procs : ReqQuery(p)
    \/ \E p \in Procs : ReqWake(p)
    \/ \E p \in Procs : ReqDone(p)
    \/ WatchStart
    \/ WatchRoute
    \/ WatchScaleMain
    \/ WatchScaleDep
    \/ Tick

SpecChain == InitChain /\ [][NextChain]_vars

\* route id has had a matched request less than its idleTimeout ago, and had
\* so when the watcher took its snapshot, if it holds one
InUse(id) ==
    /\ id \in DOMAIN store
    /\ now - store[id].LastActivity < store[id].IdleTimeout
    /\ \A i \in 1..Len(wc.routes) :
          wc.routes[i].ID = id =>
              now - wc.routes[i].LastActivity < wc.routes[i].IdleTimeout

\* the workloads of a route: its deployment and its dependencies
Chain(route) ==
    LET names == DeploymentsToCheck(route)
    IN  {names[k] : k \in 1..Len(names)}

(* C15: usage of one service keeps the entire chain alive: while a route   *)
(* keeps receiving matched requests at intervals shorter than its          *)
(* idleTimeout the watcher never asks to scale to zero that route's        *)
(* deployment or any of its dependencies, also when the workload belongs   *)
(* to another route that is idle.                                          *)
C15_UsedChainStaysAlive ==
    [][ (Len(wc'.log) = Len(wc.log) + 1 /\ wc'.log[Len(wc'.log)].kind = "scale")
          => \A id \in DOMAIN store :
                InUse(id) => wc'.log[Len(wc'.log)].name \notin Chain(store[id]) ]_vars

(***************************************************************************)
(* The watcher alone with a Control Plane whose calls all succeed, and     *)
(* no request: the ticker keeps firing and the clock keeps running.        *)
(***************************************************************************)
NextReap ==
    \/ WatchStart
    \/ WatchRouteWith(FALSE)
    \/ WatchScaleMainWith(FALSE)
    \/ WatchScaleDepWith(FALSE)
    \/ Tick
    \/ \E d \in Deployments : CPProgress(d)

ReapFairness ==
    /\ WF_vars(WatchStart)
    /\ WF_vars(WatchRouteWith(FALSE))
    /\ WF_vars(WatchScaleMainWith(FALSE))
    /\ WF_vars(WatchScaleDepWith(FALSE))
    /\ WF_vars(Tick)
    /\ \A d \in Deployments : WF_vars(CPProgress(d))

SpecReap == InitIdle /\ [][NextReap]_vars /\ ReapFairness

\* the deployment of the route and each of its stopOnIdle dependencies is
\* at desired replicas 0
Stopped(route) ==
    /\ cp[route.Deployment].desired = 0
    /\ \A j \in 1..Len(route.Dependencies) :
          route.Dependencies[j].StopOnIdle =>
              cp[route.Dependencies[j].Name].desired = 0

(* C16: if a route receives no matched request for longer than its         *)
(* idleTimeout, the watcher keeps ticking and all Control Plane calls      *)
(* succeed, then eventually the desired replicas of the route's deployment *)
(* and of each of its stopOnIdle dependencies is 0, from every starting    *)
(* replica state.                                                          *)
C16_IdleRouteEventuallyStopped ==
    <>(\A id \in DOMAIN store : Stopped(store[id]))

(***************************************************************************)
(* proxy: Handler.handleStatusCheck, the poll operation                    *)
(*   sc.outcome  "badrequest" (400 Missing path), "notfound" (404),        *)
(*               "status" (the JSON response)                              *)
(*   sc.status   response["status"]: "waiting" or "ready"                  *)
(*   sc.details  response["details"]: name and status of each entry        *)
(*   sc.queries, sc.scales: the GetDeploymentStatus and ScaleDeployment    *)
(*               calls the poll has made                                   *)
(***************************************************************************)
\* a poll that takes a workload with one ready replica for ready
PollStatus_AnyReplicaReady(st) ==
    IF st.err THEN "Error"
    ELSE IF st.replicas = 0 THEN "Sleep"
    ELSE IF st.readyReplicas = 0 THEN "Scaling"
    ELSE "Ready"

\* status of one entry: Error, Sleep, Scaling or Ready
PollStatus(st) ==
    IF st.err THEN "Error"
    ELSE IF st.replicas = 0 THEN "Sleep"
    ELSE IF st.readyReplicas < st.replicas THEN "Scaling"
    ELSE "Ready"

\* a poll that proxies the request once everything is ready
PollAdvance_ForwardWhenReady(c) ==
    IF c.idx + 1 > Len(c.deploymentsToCheck)
    THEN [c EXCEPT !.idx = c.idx + 1, !.pc = "done",
                   !.outcome = IF c.allReady THEN "forward" ELSE "status",
                   !.status = IF c.allReady THEN "ready" ELSE "waiting"]
    ELSE [c EXCEPT !.idx = c.idx + 1]

\* the end of one iteration of the loop over deploymentsToCheck: the next
\* entry, or after the last one the JSON response
PollAdvance(c) ==
    IF c.idx + 1 > Len(c.deploymentsToCheck)
    THEN [c EXCEPT !.idx = c.idx + 1, !.pc = "done", !.outcome = "status",
                   !.status = IF c.allReady THEN "ready" ELSE "waiting"]
    ELSE [c EXCEPT !.idx = c.idx + 1]

\* GET /__smart_proxy/status?host=&path=, up to `if !found { http.NotFound }`
PollStart(host, path) ==
    /\ sc.pc = "idle"
    /\ LET c == [sc EXCEPT !.host = host, !.path = path]
       IN  IF path = <<>>
           THEN sc' = [c EXCEPT !.pc = "done", !.outcome = "badrequest"]
           ELSE \E routes \in GetAllRoutes(store) :
                  LET m == MatchRoutes(routes, host, path)
                  IN  sc' = IF ~m.found
                            THEN [c EXCEPT !.pc = "done", !.outcome = "notfound"]
                            ELSE [c EXCEPT !.pc = "query",
                                           !.matchedRoute = m.matchedRoute,
                                           !.deploymentsToCheck =
                                               DeploymentsToCheck(m.matchedRoute),
                                           !.idx = 1,
                                           !.allReady = TRUE]
    /\ UNCHANGED <<store, cp, now, hc, probe, wc, others>>

\* a poll that leaves an entry whose query failed out of the details
PollQueryWith_SkipFailed(fail) ==
    /\ sc.pc = "query"
    /\ LET name   == sc.deploymentsToCheck[sc.idx]
           st     == GetDeploymentStatus(name, fail)
           status == PollStatus(st)
       IN  sc' = PollAdvance(
                   [sc EXCEPT !.queries = Append(@, Observation(st)),
                              !.details = IF st.err THEN @
                                          ELSE Append(@, [name |-> name,
                                                          status |-> status]),
                              !.allReady = sc.allReady /\ status = "Ready"])
    /\ UNCHANGED <<store, cp, now, hc, probe, wc, others>>

\* h.k8sClient.GetDeploymentStatus(matchedRoute.Namespace, depName) and the
\* status the loop body derives from it
PollQueryWith(fail) ==
    /\ sc.pc = "query"
    /\ LET name   == sc.deploymentsToCheck[sc.idx]
           st     == GetDeploymentStatus(name, fail)
           status == PollStatus(st)
       IN  sc' = PollAdvance(
                   [sc EXCEPT !.queries = Append(@, Observation(st)),
                              !.details = Append(@, [name |-> name, status |-> status]),
                              !.allReady = sc.allReady /\ status = "Ready"])
    /\ UNCHANGED <<store, cp, now, hc, probe, wc, others>>

PollQuery == \E fail \in BOOLEAN : PollQueryWith(fail)

\* the response is written; the client may poll again
PollDone ==
    /\ sc.pc = "done"
    /\ sc' = IdlePoll
    /\ UNCHANGED <<store, cp, now, hc, probe, wc, others>>

(***************************************************************************)
(* The poll next to the request handler, from every replica state.         *)
(***************************************************************************)
\* the host and path parameters of the polls: those of the requests, and a
\* poll without path
Polls == Requests \cup {[host |-> <<"h", ":", "1">>, path |-> <<>>]}

ClusterStates ==
    [Deployments -> {st \in [desired : 0..MaxReplicas, ready : 0..MaxReplicas] :
                        st.ready <= st.desired}]

InitPoll ==
    /\ store \in InitialStores
    /\ cp \in ClusterStates
    /\ now = 1
    /\ hc = [p \in Procs |-> IdleCtx]
    /\ probe = NoProbe
    /\ wc = IdleWatch
    /\ sc = IdlePoll
    /\ InitOthers

NextPoll ==
    \/ \E p \in Procs, r \in Requests : ReqStart(p, r.host, r.path)
    \/ \E p \in Procs : ReqTouchId(p)
    \/ \E p \in Procs : ReqTouchPath(p)
    \/ \E p \in Procs : ReqQuery(p)
    \/ \E p \in Procs : ReqWake(p)
    \/ \E p \in Procs : ReqDone(p)
    \/ \E r \in Polls : PollStart(r.host, r.path)
    \/ PollQuery
    \/ PollDone

SpecPoll == InitPoll /\ [][NextPoll]_vars

\* the poll has been answered with the JSON status response
Polled == sc.pc = "done" /\ sc.outcome = "status"

(* C18: the poll exposes the same decision as the request handler: for     *)
(* every matched route and every Control Plane state, failed queries       *)
(* included, the poll reports "ready" exactly when the handler, run for    *)
(* the same host/path against the same state, forwards the request.        *)
C18_PollDecidesAsHandler ==
    \A p \in Procs :
        (/\ Checked(p) /\ Polled
         /\ hc[p].host = sc.host /\ hc[p].path = sc.path
         /\ hc[p].matchedRoute = sc.matchedRoute
         /\ hc[p].queries = sc.queries)
            => (sc.status = "ready" <=> hc[p].outcome = "forward")

(* C19: the poll repeats the readiness check of the request handler with   *)
(* its wake step: when it observes a check-list entry at desired replicas  *)
(* 0 it issues a scale-to-1 request for that entry.                        *)
C19_PollWakesSleepingEntries ==
    Polled =>
        \A i \in 1..Len(sc.details) :
            sc.details[i].status = "Sleep" =>
                \E k \in 1..Len(sc.scales) :
                    /\ sc.scales[k].name = sc.details[i].name
                    /\ sc.scales[k].replicas = 1

(* C20: the poll never forwards traffic to a backend, whatever the match   *)
(* and readiness result: its only outcomes are the JSON status response,   *)
(* not-found, or bad-request for a missing path.                           *)
C20_PollNeverForwards ==
    /\ sc.outcome \in {"none", "status", "notfound", "badrequest"}
    /\ sc.pc = "done" =>
          /\ sc.outcome # "none"
          /\ sc.outcome = "badrequest" <=> sc.path = <<>>
          /\ sc.outcome = "status" =>
                /\ Len(sc.details) = Len(sc.deploymentsToCheck)
                /\ sc.status = "ready" <=>
                      \A i \in 1..Len(sc.details) : sc.details[i].status = "Ready"

\* a poll that found every workload of its route ready and answered so
C20_Witness ==
    /\ Polled
    /\ sc.status = "ready"
    /\ Len(sc.details) = 2
    /\ \A d \in Deployments : cp[d].desired > 0 /\ cp[d].ready = cp[d].desired

(***************************************************************************)
(* A client in front of a sleeping workload: its request, then its polls   *)
(* for the same host/path, with the watcher running and the clock going.   *)
(* The Control Plane honours every call and starts the pods it is asked    *)
(* for.                                                                    *)
(***************************************************************************)
\* the request of the client, and the host/path it then polls
ClientRequest == [host |-> <<"h", ":", "1">>, path |-> <<"/", "a", "b">>]

InitWake ==
    /\ store \in {StoreOf({RouteApp(deps)}) : deps \in DepLists}
    /\ cp = [d \in Deployments |-> [desired |-> 0, ready |-> 0]]
    /\ now = 1
    /\ hc = [p \in Procs |-> IdleCtx]
    /\ probe = NoProbe
    /\ wc = IdleWatch
    /\ sc = IdlePoll
    /\ InitOthers

NextWake ==
    \/ \E p \in Procs : ReqStart(p, ClientRequest.host, ClientRequest.path)
    \/ \E p \in Procs : ReqTouchId(p)
    \/ \E p \in Procs : ReqTouchPath(p)
    \/ \E p \in Procs : ReqQueryWith(p, FALSE)
    \/ \E p \in Procs : ReqWakeWith(p, FALSE)
    \/ \E p \in Procs : ReqDone(p)
    \/ PollStart(ClientRequest.host, ClientRequest.path)
    \/ PollQueryWith(FALSE)
    \/ PollDone
    \/ WatchStart
    \/ WatchRouteWith(FALSE)
    \/ WatchScaleMainWith(FALSE)
    \/ WatchScaleDepWith(FALSE)
    \/ Tick
    \/ \E d \in Deployments : CPProgress(d)

\* a request once read is answered, the client keeps polling, the watcher
\* keeps ticking, time passes and the cluster starts and stops pods; nothing
\* makes a client send another request
WakeFairness ==
    /\ \A p \in Procs :
          /\ WF_vars(ReqTouchId(p))
          /\ WF_vars(ReqTouchPath(p))
          /\ WF_vars(ReqQueryWith(p, FALSE))
          /\ WF_vars(ReqWakeWith(p, FALSE))
          /\ WF_vars(ReqDone(p))
    /\ WF_vars(PollStart(ClientRequest.host, ClientRequest.path))
    /\ WF_vars(PollQueryWith(FALSE))
    /\ WF_vars(PollDone)
    /\ ReapFairness

SpecWake == InitWake /\ [][NextWake]_vars /\ WakeFairness

(* C17: after a request for a route with a sleeping workload has been      *)
(* answered with the wait response, a client that keeps polling that       *)
(* host/path eventually receives status "ready", provided the Control      *)
(* Plane honours every scale request and brings the ready replicas up to   *)
(* the desired ones; the watcher keeps running.                            *)
C17_PollEventuallyReady ==
    (\E p \in Procs : Answered(p) /\ hc[p].outcome = "wait")
        ~> (Polled /\ sc.status = "ready")

(***************************************************************************)
(* proxy: Handler.ServeHTTP call by call.  Each method of the Store takes  *)
(* Store.mu on entry and releases it on return; each Control Plane call is *)
(* issued by the goroutine and returns when the API server answers, which  *)
(* no timeout bounds (context.TODO()).                                     *)
(*   rq[c].pc  "idle", "list" (in GetAllRoutes), "lockId", "touchId" (in   *)
(*             UpdateActivity(ID)), "lockPath", "touchPath", "query",      *)
(*             "querying" (GetDeploymentStatus under way), "wake",         *)
(*             "scaling" (ScaleDeployment under way), "done"               *)
(*   rq[c].obs   what the status query of the entry at hand showed         *)
(*   rq[c].woke, rq[c].failed  the workloads this request has scaled to 1, *)
(*             has failed to scale to 1                                    *)
(*   rq[c].prevFailed  `failed` of the client's previous request           *)
(***************************************************************************)
\* s.mu.RLock() of GetAllRoutes, for a request that has arrived
FgRLock(c) ==
    /\ rq[c].pc = "idle"
    /\ mu.w = ""
    /\ mu' = [mu EXCEPT !.r = @ \cup {c}]
    /\ rq' = [rq EXCEPT ![c].pc = "list"]
    /\ UNCHANGED <<store, cp, now, hc, probe, wc, sc, held, ing, rest>>

\* GetAllRoutes copies the routes and unlocks; the matching loop follows
FgGetAllRoutes(c) ==
    /\ rq[c].pc = "list"
    /\ mu' = [mu EXCEPT !.r = @ \ {c}]
    /\ \E routes \in GetAllRoutes(store) :
         LET m == MatchRoutes(routes, ClientRequest.host, ClientRequest.path)
         IN  rq' = [rq EXCEPT ![c] =
                      IF ~m.found
                      THEN [@ EXCEPT !.pc = "done", !.outcome = "notfound"]
                      ELSE [@ EXCEPT !.pc = "lockId", !.matchedRoute = m.matchedRoute]]
    /\ UNCHANGED <<store, cp, now, hc, probe, wc, sc, held, ing, rest>>

\* s.mu.Lock() of UpdateActivity
FgLock(c) ==
    /\ rq[c].pc \in {"lockId", "lockPath"}
    /\ mu.w = "" /\ mu.r = {}
    /\ mu' = [mu EXCEPT !.w = c]
    /\ rq' = [rq EXCEPT ![c].pc = IF @ = "lockId" THEN "touchId" ELSE "touchPath"]
    /\ UNCHANGED <<store, cp, now, hc, probe, wc, sc, held, ing, rest>>

\* an UpdateActivity that returns without unlocking
FgUpdateActivity_KeepLock(c) ==
    /\ rq[c].pc \in {"touchId", "touchPath"}
    /\ mu.w = c
    /\ mu' = IF rq[c].pc = "touchId" THEN FreeLock ELSE mu
    /\ IF rq[c].pc = "touchId"
       THEN /\ store' = UpdateActivity(store, rq[c].matchedRoute.ID, now)
            /\ rq' = [rq EXCEPT ![c].pc = "lockPath"]
       ELSE /\ store' = UpdateActivity(store, rq[c].matchedRoute.Path, now)
            /\ rq' = [rq EXCEPT ![c].pc = "query",
                                ![c].deploymentsToCheck =
                                    DeploymentsToCheck(rq[c].matchedRoute),
                                ![c].idx = 1,
                                ![c].allReady = TRUE]
    /\ UNCHANGED <<cp, now, hc, probe, wc, sc, held, ing, rest>>

\* UpdateActivity sets LastActivity and unlocks: first for matchedRoute.ID,
\* then for matchedRoute.Path, after which deploymentsToCheck is built
FgUpdateActivity(c) ==
    /\ rq[c].pc \in {"touchId", "touchPath"}
    /\ mu.w = c
    /\ mu' = FreeLock
    /\ IF rq[c].pc = "touchId"
       THEN /\ store' = UpdateActivity(store, rq[c].matchedRoute.ID, now)
            /\ rq' = [rq EXCEPT ![c].pc = "lockPath"]
       ELSE /\ store' = UpdateActivity(store, rq[c].matchedRoute.Path, now)
            /\ rq' = [rq EXCEPT ![c].pc = "query",
                                ![c].deploymentsToCheck =
                                    DeploymentsToCheck(rq[c].matchedRoute),
                                ![c].idx = 1,
                                ![c].allReady = TRUE]
    /\ UNCHANGED <<cp, now, hc, probe, wc, sc, held, ing, rest>>

\* h.k8sClient.GetDeploymentStatus(targetNs, depName) is called
FgQueryCall(c) ==
    /\ rq[c].pc = "query"
    /\ rq' = [rq EXCEPT ![c].pc = "querying", ![c].obs = "none"]
    /\ UNCHANGED <<store, cp, now, hc, probe, wc, sc, mu, held, ing, rest>>

\* the API server answers the status query; the loop body goes on
FgQueryReturn(c, fail) ==
    /\ rq[c].pc = "querying"
    /\ LET name == rq[c].deploymentsToCheck[rq[c].idx]
           st   == GetDeploymentStatus(name, fail)
       IN  rq' = [rq EXCEPT ![c] =
                    CheckEntry([rq[c] EXCEPT !.obs = Observation(st)], st)]
    /\ UNCHANGED <<store, cp, now, hc, probe, wc, sc, mu, held, ing, rest>>

\* h.k8sClient.ScaleDeployment(targetNs, depName, 1) is called
FgScaleCall(c) ==
    /\ rq[c].pc = "wake"
    /\ rq' = [rq EXCEPT ![c].pc = "scaling"]
    /\ UNCHANGED <<store, cp, now, hc, probe, wc, sc, mu, held, ing, rest>>

\* a handler that answers with an error when the scale call fails
FgScaleReturn_ErrorPage(c, fail) ==
    /\ rq[c].pc = "scaling"
    /\ LET name == rq[c].deploymentsToCheck[rq[c].idx]
       IN  /\ cp' = ScaleDeployment(name, WakeReplicas, fail)
           /\ rq' = [rq EXCEPT ![c] =
                       IF fail
                       THEN [@ EXCEPT !.pc = "done", !.outcome = "error",
                                      !.obs = "none", !.failed = @ \cup {name}]
                       ELSE Advance([@ EXCEPT !.allReady = FALSE, !.obs = "none",
                                              !.woke = @ \cup {name}])]
    /\ UNCHANGED <<store, now, hc, probe, wc, sc, mu, held, ing, rest>>

\* the API server answers the scale call: an error is logged only;
\* allReady = false, next entry
FgScaleReturn(c, fail) ==
    /\ rq[c].pc = "scaling"
    /\ LET name == rq[c].deploymentsToCheck[rq[c].idx]
       IN  /\ cp' = ScaleDeployment(name, WakeReplicas, fail)
           /\ rq' = [rq EXCEPT ![c] =
                       Advance([@ EXCEPT !.allReady = FALSE, !.obs = "none",
                                         !.woke = IF fail THEN @ ELSE @ \cup {name},
                                         !.failed = IF fail THEN @ \cup {name} ELSE @])]
    /\ UNCHANGED <<store, now, hc, probe, wc, sc, mu, held, ing, rest>>

\* the response is written
FgDone(c) ==
    /\ rq[c].pc = "done"
    /\ rq' = [rq EXCEPT ![c] = [IdleRq EXCEPT !.prevFailed = rq[c].failed]]
    /\ UNCHANGED <<store, cp, now, hc, probe, wc, sc, mu, held, ing, rest>>

\* the ticker fires: s.mu.RLock() of the watcher's GetAllRoutes
FgWatchRLock ==
    /\ wc.pc = "sleep"
    /\ mu.w = ""
    /\ mu' = [mu EXCEPT !.r = @ \cup {"w"}]
    /\ wc' = [IdleWatch EXCEPT !.pc = "list"]
    /\ UNCHANGED <<store, cp, now, hc, probe, sc, rq, held, ing, rest>>

\* the watcher's GetAllRoutes copies the routes and unlocks; the loop starts
FgWatchList ==
    /\ wc.pc = "list"
    /\ mu' = [mu EXCEPT !.r = @ \ {"w"}]
    /\ \E routes \in GetAllRoutes(store) :
         wc' = NextRoute([IdleWatch EXCEPT !.routes = routes])
    /\ UNCHANGED <<store, cp, now, hc, probe, sc, rq, held, ing, rest>>

\* the steps the goroutine of request c takes by itself
FgOwnStep(c) ==
    \/ FgRLock(c)
    \/ FgGetAllRoutes(c)
    \/ FgLock(c)
    \/ FgUpdateActivity(c)
    \/ FgQueryCall(c)
    \/ FgScaleCall(c)
    \/ FgDone(c)

\* the registries of the concurrent requests: route r alone, with no
\* dependency or with one
StallStores == {StoreOf({RouteApp(deps)}) : deps \in SeqsUpTo(DepConfigs, 1)}

InitStall ==
    /\ store \in StallStores
    /\ cp = [d \in Deployments |-> [desired |-> 0, ready |-> 0]]
    /\ now = 2
    /\ hc = [p \in Procs |-> IdleCtx]
    /\ probe = NoProbe
    /\ wc = IdleWatch
    /\ sc = IdlePoll
    /\ InitOthers

NextStall ==
    \/ \E c \in Clients : FgRLock(c)
    \/ \E c \in Clients : FgGetAllRoutes(c)
    \/ \E c \in Clients : FgLock(c)
    \/ \E c \in Clients : FgUpdateActivity(c)
    \/ \E c \in Clients : FgQueryCall(c)
    \/ \E c \in Clients, fail \in BOOLEAN : FgQueryReturn(c, fail)
    \/ \E c \in Clients : FgScaleCall(c)
    \/ \E c \in Clients, fail \in BOOLEAN : FgScaleReturn(c, fail)
    \/ \E c \in Clients : FgDone(c)
    \/ FgWatchRLock
    \/ FgWatchList
    \/ \E d \in Deployments : CPProgress(d)

SpecStall == InitStall /\ [][NextStall]_vars

\* request c waits for an answer of the Control Plane
InCall(c) == rq[c].pc \in {"querying", "scaling"}

\* C21: waking is asynchronous: once the scale request is issued the handler
\* goes on by itself (to the next entry, then to the wait response) without
\* awaiting the answer, so a stalled scale request does not hold the
\* goroutine back
C21_WakeNotAwaited ==
    \A c \in Clients : rq[c].pc = "scaling" => ENABLED FgOwnStep(c)

\* the watcher is past GetAllRoutes, in or between its Control Plane calls
WatchInCall == wc.pc \in {"route", "main", "dep"}

\* the contexts that hold Store.mu, for reading or for writing
Holders == mu.r \cup (IF mu.w = "" THEN {} ELSE {mu.w})

\* the holder x of Store.mu is at a step of its own, the one that unlocks
CanRelease(x) == IF x = "w" THEN ENABLED FgWatchList ELSE ENABLED FgOwnStep(x)

\* C25: a request or the reaper waiting for the Control Plane holds neither
\* side of the registry lock; so, while some context waits there, every
\* request that is not itself waiting for the Control Plane can take its
\* next step (matching, activity update, the call of its readiness check),
\* at once or as soon as a holder that is not waiting has unlocked
C25_NoLockAcrossControlPlaneCall ==
    /\ \A c \in Clients : InCall(c) => c \notin Holders
    /\ WatchInCall => "w" \notin Holders
    /\ (WatchInCall \/ \E c \in Clients : InCall(c)) =>
          \A o \in Clients :
              ~InCall(o) =>
                  \/ ENABLED FgOwnStep(o)
                  \/ \E x \in Holders \ {o} : CanRelease(x)

\* C25 happens: the reaper and request a wait for the Control Plane while
\* request b has been matched, has updated the activity and has got its
\* wait response
C25_Witness ==
    /\ wc.pc = "route"
    /\ rq["a"].pc = "scaling"
    /\ rq["b"].pc = "done"
    /\ rq["b"].outcome = "wait"
    /\ rq["b"].matchedRoute # NoRoute

\* C26: a failed wake is absorbed: the request goes through all its entries
\* and ends with the wait response; and a request that finds a workload at
\* desired 0, also one whose wake failed in the previous request, goes on
\* to the scale call
C26_FailedWakeAbsorbed ==
    \A c \in Clients :
        /\ (rq[c].pc = "done" /\ rq[c].failed # {}) =>
              /\ rq[c].outcome = "wait"
              /\ rq[c].idx = Len(rq[c].deploymentsToCheck) + 1
        /\ rq[c].failed # {} => ~rq[c].allReady
        /\ rq[c].obs = "Sleep" => rq[c].pc \in {"wake", "scaling"}

\* C26 happens: the wake of the first of two entries failed in the previous
\* request of the client, and its next request issues that wake again
C26_Witness ==
    \E c \in Clients :
        /\ rq[c].pc = "scaling"
        /\ Len(rq[c].deploymentsToCheck) = 2
        /\ rq[c].idx = 1
        /\ rq[c].deploymentsToCheck[1] \in rq[c].prevFailed
        /\ rq[c].obs = "Sleep"

\* C30: waking is idempotent: whatever the number of wake requests, one after
\* the other or at once, no workload is ever desired at more than 1 replica,
\* and a workload a request has woken is desired at exactly 1
C30_WakeIdempotent ==
    /\ \A d \in Deployments : cp[d].desired <= WakeReplicas
    /\ \A c \in Clients : \A d \in rq[c].woke : cp[d].desired = WakeReplicas

\* C30 happens: two requests at once have both woken the same workload
C30_Witness ==
    \E d \in Deployments :
        /\ d \in rq["a"].woke
        /\ d \in rq["b"].woke
        /\ cp[d].desired = WakeReplicas

(***************************************************************************)
(* store: what callers hold.  AddRoute keeps the caller's *RouteConfig in  *)
(* the map, GetRoute returns the pointer kept in the map, GetAllRoutes     *)
(* appends *r, a copy.  `held` is the set of route values callers hold:    *)
(*   kind   "add", "get" or "list";  id  the key of the route              *)
(*   alias  TRUE while the value is the very record the map holds          *)
(*   val    the value when it is not (or no longer) the map's record       *)
(*   taken  the value the caller got or gave                               *)
(***************************************************************************)
MaxHeld == 2

\* what the caller reads through the handle h
Deref(h) == IF h.alias THEN store[h.id] ELSE h.val

\* s.routes[id] is replaced or deleted: a pointer to the old record keeps
\* the old record as it was
Detach(hs, id) ==
    {IF h.alias /\ h.id = id
     THEN [h EXCEPT !.alias = FALSE, !.val = store[id]]
     ELSE h : h \in hs}

\* a GetAllRoutes whose slice holds the map's records themselves
ListHandles_Pointers(routes) ==
    {[kind |-> "list", id |-> routes[i].ID, alias |-> TRUE,
      val |-> routes[i], taken |-> routes[i]] : i \in 1..Len(routes)}

\* routes = append(routes, *r): the slice holds copies
ListHandles(routes) ==
    {[kind |-> "list", id |-> routes[i].ID, alias |-> FALSE,
      val |-> routes[i], taken |-> routes[i]] : i \in 1..Len(routes)}

\* the ids routes of this registry can have
RegIds == UUIDs \cup {<<"r">>}

\* the route definitions posted to this registry
RegPosted == {r \in PostedRoutes : r.Host = <<>> /\ r.Path = <<"/", "a">>}

\* POST /api/routes: AddRoute(&route); the handler keeps using `route`
RegAdd(config) ==
    /\ Cardinality(held) < MaxHeld
    /\ \E uuid \in UUIDs \ DOMAIN store :
         LET st == AddRoute(store, config, uuid)
             id == IF config.ID = <<>> THEN uuid ELSE config.ID
         IN  /\ Cardinality(DOMAIN st) <= MaxRoutes
             /\ store' = st
             /\ held' = Detach(held, id) \cup
                            {[kind |-> "add", id |-> id, alias |-> TRUE,
                              val |-> st[id], taken |-> st[id]]}
    /\ UNCHANGED <<cp, now, hc, probe, wc, sc, rq, mu, ing, rest>>

\* Store.GetRoute(id): the pointer kept in the map
RegGet(id) ==
    /\ Cardinality(held) < MaxHeld
    /\ id \in DOMAIN store
    /\ held' = held \cup {[kind |-> "get", id |-> id, alias |-> TRUE,
                            val |-> store[id], taken |-> store[id]]}
    /\ UNCHANGED <<store, cp, now, hc, probe, wc, sc, rq, mu, ing, rest>>

\* Store.GetAllRoutes(): a scan takes its snapshot
RegList ==
    /\ DOMAIN store # {}
    /\ \E routes \in GetAllRoutes(store) :
         /\ Cardinality(held \cup ListHandles(routes)) <= MaxHeld
         /\ held' = held \cup ListHandles(routes)
    /\ UNCHANGED <<store, cp, now, hc, probe, wc, sc, rq, mu, ing, rest>>

\* Store.UpdateActivity(id), called by the handler with the id and with the
\* path of the matched route, which need not be the id of any route
RegUpdateActivity(id) ==
    /\ store' = UpdateActivity(store, id, now)
    /\ UNCHANGED <<cp, now, hc, probe, wc, sc, others>>

\* DELETE /api/routes?id=
RegRemove(id) ==
    /\ id \in DOMAIN store
    /\ store' = RemoveRoute(store, id)
    /\ held' = Detach(held, id)
    /\ UNCHANGED <<cp, now, hc, probe, wc, sc, rq, mu, ing, rest>>

\* the callers are done with the values they held
RegRelease ==
    /\ held # {}
    /\ held' = {}
    /\ UNCHANGED <<store, cp, now, hc, probe, wc, sc, rq, mu, ing, rest>>

InitReg ==
    /\ store = EmptyStore
    /\ cp = [d \in Deployments |-> [desired |-> 0, ready |-> 0]]
    /\ now = 1
    /\ hc = [p \in Procs |-> IdleCtx]
    /\ probe = NoProbe
    /\ wc = IdleWatch
    /\ sc = IdlePoll
    /\ InitOthers

NextReg ==
    \/ \E config \in RegPosted : RegAdd(config)
    \/ \E id \in RegIds : RegGet(id)
    \/ RegList
    \/ \E id \in RegIds : RegUpdateActivity(id)
    \/ \E id \in RegIds : RegRemove(id)
    \/ RegRelease
    \/ Tick

SpecReg == InitReg /\ [][NextReg]_vars

\* the values of the given kinds that callers hold
HeldOf(kinds) == {h \in held : h.kind \in kinds}

\* C22: a snapshot returned by GetAllRoutes holds copies: whatever
\* UpdateActivity does afterwards, each route of the snapshot reads as it
\* did when the snapshot was taken
C22_SnapshotIsACopy ==
    \A h \in HeldOf({"list"}) : Deref(h) = h.taken

\* C22 happens: a snapshot is held whose route has since got a later
\* LastActivity in the registry
C22_Witness ==
    \E h \in HeldOf({"list"}) :
        /\ h.id \in DOMAIN store
        /\ store[h.id].LastActivity > h.taken.LastActivity

\* C23: a route value a caller got from GetRoute, or gave to AddRoute, reads
\* as it did then, whatever UpdateActivity does afterwards
C23_CallerValuesNotAliased ==
    \A h \in HeldOf({"get", "add"}) : Deref(h) = h.taken

\* C24: from one registry state to the next, the LastActivity of a route
\* that stays in the registry never decreases
C24_LastActivityNeverBackward ==
    [][\A id \in DOMAIN store \cap DOMAIN store' :
          store'[id].LastActivity >= store[id].LastActivity]_vars

InitRetry ==
    /\ store \in {StoreOf({RouteApp(deps)}) : deps \in IdleDepLists}
    /\ cp = [d \in Deployments |-> [desired |-> 1, ready |-> 1]]
    /\ now = 2
    /\ hc = [p \in Procs |-> IdleCtx]
    /\ probe = NoProbe
    /\ wc = IdleWatch
    /\ sc = IdlePoll
    /\ InitOthers

NextRetry ==
    \/ WatchStart
    \/ WatchRouteWith(FALSE)
    \/ WatchScaleMain
    \/ WatchScaleDep
    \/ Tick

SpecRetry == InitRetry /\ [][NextRetry]_vars

\* the workloads the watcher is to stop for an idle route
StopWorkloads(route) ==
    {route.Deployment} \cup
    {route.Dependencies[j].Name : j \in {k \in 1..Len(route.Dependencies) :
                                            StopsDep(route.Dependencies[k])}}

\* C27: when a tick over a route that is still idle ends, every workload of
\* the route that still has desired replicas > 0 (its scale-to-zero request
\* failed before) has been sent a scale-to-zero request by this tick
C27_FailedStopRetried ==
    TickDone =>
        \A i \in 1..Len(wc.routes) :
            FoundIdle(i) =>
                \A d \in StopWorkloads(wc.routes[i]) :
                    cp[d].desired > 0 => StopsOf(i, d) # {}

(***************************************************************************)
(* admin: POST /api/ingresses/patch and /unpatch                           *)
(***************************************************************************)
\* SMART_PROXY_PORT, default
ProxyPort == 80

\* the port handleUnpatchIngress writes back
UnpatchPort == 80

IngressServices == {"web", "db"}
IngressPorts == {80, 8080}

\* the id of the route made for Ingress n: "ing-" + name
IngressRouteId(n) == <<"i", n>>

\* an Ingress with one rule and one path is created in the namespace
IngCreate(n, svc, port) ==
    /\ ~ing[n].exists
    /\ ing' = [ing EXCEPT ![n] =
                 [NoIngress EXCEPT !.exists = TRUE, !.service = svc, !.port = port]]
    /\ UNCHANGED <<store, cp, now, hc, probe, wc, sc, rq, mu, held, rest>>

\* handlePatchIngress(name = n); fail: UpdateIngress returns an error
PatchIngressWith(n, fail) ==
    /\ ing[n].exists
    /\ ~ing[n].patched
    /\ IF fail
       THEN UNCHANGED <<store, ing>>
       ELSE LET routeConfig ==
                    [ID |-> IngressRouteId(n), Host |-> <<>>,
                     Path |-> <<"/">>, Deployment |-> ing[n].service,
                     Dependencies |-> <<>>, IdleTimeout |-> 1,
                     LastActivity |-> now]
            IN  /\ ing' = [ing EXCEPT ![n] =
                        [@ EXCEPT !.patched = TRUE,
                                  !.originalService = ing[n].service,
                                  !.configPort = ing[n].port,
                                  !.service = "smart-proxy",
                                  !.port = ProxyPort,
                                  !.before = [service |-> ing[n].service,
                                              port |-> ing[n].port],
                                  !.restored = FALSE,
                                  !.config = routeConfig]]
                /\ store' = AddRoute(store, routeConfig, <<>>)
    /\ UNCHANGED <<cp, now, hc, probe, wc, sc, rq, mu, held, rest>>

\* handleUnpatchIngress(name = n); fail: UpdateIngress returns an error
UnpatchIngressWith(n, fail) ==
    /\ ing[n].exists
    /\ ing[n].patched
    /\ IF fail
       THEN UNCHANGED <<store, ing>>
       ELSE /\ ing' = [ing EXCEPT ![n] =
                        [@ EXCEPT !.service = ing[n].originalService,
                                  !.port = UnpatchPort,
                                  !.patched = FALSE,
                                  !.originalService = "",
                                  !.restored = TRUE]]
            /\ store' = RemoveRoute(store, IngressRouteId(n))
    /\ UNCHANGED <<cp, now, hc, probe, wc, sc, rq, mu, held, rest>>

PatchIngress(n) == \E fail \in BOOLEAN : PatchIngressWith(n, fail)

UnpatchIngress(n) == \E fail \in BOOLEAN : UnpatchIngressWith(n, fail)

\* the Ingress is deleted from the namespace
IngDelete(n) ==
    /\ ing[n].exists
    /\ ing' = [ing EXCEPT ![n] = NoIngress]
    /\ UNCHANGED <<store, cp, now, hc, probe, wc, sc, rq, mu, held, rest>>

\* the registry after the loop of SyncRoutesFromIngresses has gone through
\* the Ingresses named: every one that carries smart-proxy/config is added
RECURSIVE SyncedFrom(_, _)
SyncedFrom(st, names) ==
    IF names = {} THEN st
    ELSE LET n == CHOOSE x \in names : TRUE
         IN  SyncedFrom(IF ing[n].exists /\ ing[n].config # NoRoute
                        THEN AddRoute(st, ing[n].config, IngressRouteId(n))
                        ELSE st,
                        names \ {n})

\* the server starts again on its routes file and ListenAndServe runs
\* SyncRoutesFromIngresses
SyncRoutesFromIngresses ==
    /\ store' = SyncedFrom(store, IngressNames)
    /\ UNCHANGED <<cp, now, hc, probe, wc, sc, rq, mu, held, ing, rest>>

InitIngress ==
    /\ store = EmptyStore
    /\ cp = [d \in Deployments |-> [desired |-> 0, ready |-> 0]]
    /\ now = 1
    /\ hc = [p \in Procs |-> IdleCtx]
    /\ probe = NoProbe
    /\ wc = IdleWatch
    /\ sc = IdlePoll
    /\ InitOthers

NextIngress ==
    \/ \E n \in IngressNames, svc \in IngressServices, port \in IngressPorts :
         IngCreate(n, svc, port)
    \/ \E n \in IngressNames : PatchIngress(n)
    \/ \E n \in IngressNames : UnpatchIngress(n)
    \/ \E n \in IngressNames : IngDelete(n)
    \/ SyncRoutesFromIngresses
    \/ Tick

SpecIngress == InitIngress /\ [][NextIngress]_vars

\* C28: a patched Ingress has its original backend service and port on
\* record, and an Ingress patched and then unpatched has the backend service
\* and port it had before the patch, whatever the port was
C28_UnpatchRestoresBackend ==
    \A n \in IngressNames :
        /\ ing[n].patched =>
              /\ ing[n].originalService = ing[n].before.service
              /\ ing[n].configPort = ing[n].before.port
        /\ ing[n].restored =>
              /\ ing[n].service = ing[n].before.service
              /\ ing[n].port = ing[n].before.port

(***************************************************************************)
(* Claims C31 to C40                                                       *)
(***************************************************************************)
\* the scale request the step appends to the tick's log names workload d
StopsNow(d) ==
    /\ Len(wc'.log) = Len(wc.log) + 1
    /\ wc'.log[Len(wc'.log)].kind = "scale"
    /\ wc'.log[Len(wc'.log)].name = d

C32_UpdateActivityFrame ==
    \A id \in RegIds, t \in 0..MaxTime :
        LET after == UpdateActivity(store, id, t)
        IN  /\ DOMAIN after = DOMAIN store
            /\ \A k \in DOMAIN store \ {id} : after[k] = store[k]
            /\ id \in DOMAIN store =>
                  after[id] = [store[id] EXCEPT !.LastActivity = t]
            /\ id \notin DOMAIN store => after = store

\* C32 happens: of two routes one has had its activity updated and the
\* other has not, and an id of no route is there to be updated
C32_Witness ==
    /\ RegIds \ DOMAIN store # {}
    /\ \E a, b \in DOMAIN store :
         /\ a # b
         /\ store[a].LastActivity = now
         /\ store[b].LastActivity = 0
         /\ now > 1

\* C33: the details of a poll response have one entry per element of the
\* check list, in its order: the deployment of the route, then each
\* dependency as declared; an entry whose query failed is there as well
C33_DetailsFollowCheckList ==
    Polled =>
        LET route == sc.matchedRoute
        IN  /\ Len(sc.deploymentsToCheck) = 1 + Len(route.Dependencies)
            /\ sc.deploymentsToCheck[1] = route.Deployment
            /\ \A j \in 1..Len(route.Dependencies) :
                  sc.deploymentsToCheck[j + 1] = route.Dependencies[j].Name
            /\ Len(sc.details) = Len(sc.deploymentsToCheck)
            /\ \A i \in 1..Len(sc.details) :
                  sc.details[i].name = sc.deploymentsToCheck[i]

\* C33 happens: a poll of a route with a dependency whose first query failed
C33_Witness ==
    /\ Polled
    /\ Len(sc.matchedRoute.Dependencies) = 1
    /\ sc.matchedRoute.Dependencies[1].Name # sc.matchedRoute.Deployment
    /\ sc.queries[1] = "Error"
    /\ sc.queries[2] # "Error"
    /\ Len(sc.details) = 2

\* the status the poll is to report for what a query showed
StatusFor(observation) ==
    CASE observation = "Error" -> "Error"
      [] observation = "Sleep" -> "Sleep"
      [] observation \in {"NoneReady", "SomeReady"} -> "Scaling"
      [] observation = "Ready" -> "Ready"

\* C34: a poll response says "ready" exactly when every entry of its details
\* is Ready and "waiting" otherwise, and each entry is Error for a failed
\* query, else Sleep for desired replicas 0, else Scaling for fewer ready
\* than desired replicas, else Ready
C34_PollStatuses ==
    Polled =>
        /\ sc.status \in {"ready", "waiting"}
        /\ sc.status = "ready" <=>
              \A i \in 1..Len(sc.details) : sc.details[i].status = "Ready"
        /\ Len(sc.queries) = Len(sc.details)
        /\ \A i \in 1..Len(sc.details) :
              sc.details[i].status = StatusFor(sc.queries[i])

\* C34 happens: a poll that found some but not all replicas of a workload
\* ready and answered "waiting"
C34_Witness ==
    /\ Polled
    /\ sc.status = "waiting"
    /\ \E i \in 1..Len(sc.details) :
         sc.queries[i] = "SomeReady" /\ sc.details[i].status = "Scaling"

(***************************************************************************)
(* The ticker of Watcher.Start.  main starts the loop once, with           *)
(* `go watcherService.Start()`; the loop is                                *)
(*     for range ticker.C { w.checkIdleRoutes() }                          *)
(* and ticker.C holds one tick at most: a tick that fires while one waits  *)
(* is dropped by the runtime.                                              *)
(***************************************************************************)
\* the period of the ticker elapses, whatever the loop is doing
TkFire ==
    /\ tk' = [tk EXCEPT !.pending = TRUE, !.missed = @ \/ tk.pending]
    /\ UNCHANGED <<store, cp, now, hc, probe, wc, sc, rq, mu, held, ing,
                   mt, lg, proc>>

\* a loop that starts each scan in a goroutine of its own:
\*     for range ticker.C { go w.checkIdleRoutes() }
TkReceive_Spawn ==
    /\ tk.pending
    /\ tk' = [tk EXCEPT !.pending = FALSE,
                        !.scans = IF @ < 2 THEN @ + 1 ELSE @]
    /\ IF wc.pc = "sleep"
       THEN \E routes \in GetAllRoutes(store) :
              wc' = NextRoute([pc |-> "sleep", routes |-> routes, i |-> 0,
                               j |-> 0, log |-> <<>>])
       ELSE wc' = wc
    /\ UNCHANGED <<store, cp, now, hc, probe, sc, rq, mu, held, ing,
                   mt, lg, proc>>

\* the loop receives the tick and calls checkIdleRoutes, which takes its
\* snapshot of the registry
TkReceive ==
    /\ tk.loop = "recv"
    /\ tk.pending
    /\ tk' = [tk EXCEPT !.pending = FALSE, !.loop = "scan", !.scans = @ + 1]
    /\ \E routes \in GetAllRoutes(store) :
         wc' = NextRoute([pc |-> "sleep", routes |-> routes, i |-> 0, j |-> 0,
                          log |-> <<>>])
    /\ UNCHANGED <<store, cp, now, hc, probe, sc, rq, mu, held, ing,
                   mt, lg, proc>>

\* checkIdleRoutes returns: the loop is back at `for range ticker.C`
TkReturn ==
    /\ tk.loop = "scan"
    /\ wc.pc = "sleep"
    /\ tk' = [tk EXCEPT !.loop = "recv", !.scans = @ - 1]
    /\ UNCHANGED <<store, cp, now, hc, probe, wc, sc, rq, mu, held, ing,
                   mt, lg, proc>>

InitTicker ==
    /\ store \in IdleStores
    /\ cp \in SettledClusters
    /\ now = 2
    /\ hc = [p \in Procs |-> IdleCtx]
    /\ probe = NoProbe
    /\ wc = IdleWatch
    /\ sc = IdlePoll
    /\ InitOthers

NextTicker ==
    \/ TkFire
    \/ TkReceive
    \/ WatchRoute
    \/ WatchScaleMain
    \/ WatchScaleDep
    \/ TkReturn

SpecTicker == InitTicker /\ [][NextTicker]_vars

(* C35: one reaper loop, never concurrent with itself: at most one call of *)
(* checkIdleRoutes is running at any time, a scan is under way only while  *)
(* the loop is inside that call, and a tick that fires during a scan       *)
(* starts nothing until the scan has returned.                             *)
C35_OneScanAtATime ==
    /\ tk.scans <= 1
    /\ (tk.loop = "scan") = (tk.scans = 1)
    /\ wc.pc # "sleep" => tk.loop = "scan"

\* a scan is in the middle of its scale calls while one tick waits and
\* another has already been dropped
C35_Witness ==
    /\ tk.pending
    /\ tk.missed
    /\ tk.scans = 1
    /\ wc.pc \in {"main", "dep"}

(***************************************************************************)
(* Routes created through the admin API while their workloads run, and the *)
(* watcher.  No time passes in this specification: every route of the      *)
(* registry was created at the present instant, so none has existed for    *)
(* as long as its idle timeout.                                            *)
(***************************************************************************)
\* the definitions a client posts: last_activity is absent (the zero
\* time.Time, 0) or the present instant
FreshRoutes ==
    [ID : {<<>>, <<"r">>}, Host : {<<>>}, Path : {<<"/", "a">>},
     Deployment : {"web"},
     Dependencies : {<<>>, <<[Name |-> "db", StopOnIdle |-> TRUE]>>},
     IdleTimeout : {1}, LastActivity : {0, 2}]

InitFresh ==
    /\ store = EmptyStore
    /\ cp = [d \in Deployments |-> [desired |-> 1, ready |-> 1]]
    /\ now = 2
    /\ hc = [p \in Procs |-> IdleCtx]
    /\ probe = NoProbe
    /\ wc = IdleWatch
    /\ sc = IdlePoll
    /\ InitOthers

NextFresh ==
    \/ \E config \in FreshRoutes : AdminAddRoute(config)
    \/ \E id \in {<<"r">>} \cup UUIDs : AdminRemoveRoute(id)
    \/ WatchStart
    \/ WatchRoute
    \/ WatchScaleMain
    \/ WatchScaleDep

SpecFresh == InitFresh /\ [][NextFresh]_vars

(* C36: a route created through the admin API is not scaled down before    *)
(* its idle timeout has elapsed since its creation: while no route of the  *)
(* registry is older than its timeout, the watcher finds no route idle and *)
(* makes no scale call.                                                    *)
C36_FreshRouteNotReaped ==
    \A k \in 1..Len(wc.log) : wc.log[k].kind \notin {"query", "scale"}

(***************************************************************************)
(* The process, with the client k8s.NewClient returned or, in offline/demo *)
(* mode, with the nil client main goes on with.  GetDeploymentStatus and   *)
(* ScaleDeployment read c.Clientset: on a nil client the call panics.  A   *)
(* panic in ServeHTTP is recovered by net/http, which drops the            *)
(* connection; the goroutine of `go watcherService.Start()` has no         *)
(* recover, and a panic there ends the process.                            *)
(***************************************************************************)
\* k8s.NewClient failed: main logs the warning and continues
Offline == [client |-> "nil", state |-> "running"]

\* the steps of ServeHTTP, taken by a running process
OffReqStart(p, host, path) == proc.state = "running" /\ ReqStart(p, host, path)

OffReqTouchId(p) == proc.state = "running" /\ ReqTouchId(p)

OffReqTouchPath(p) == proc.state = "running" /\ ReqTouchPath(p)

\* the loop body of ServeHTTP at GetDeploymentStatus
OffReqQuery(p) ==
    /\ proc.state = "running"
    /\ IF proc.client = "nil"
       THEN /\ hc[p].pc = "query"
            /\ hc' = [hc EXCEPT ![p].pc = "done", ![p].outcome = "aborted"]
            /\ UNCHANGED <<store, cp, now, probe, wc, sc, others>>
       ELSE ReqQuery(p)

OffReqWake(p) == proc.state = "running" /\ ReqWake(p)

OffReqDone(p) == proc.state = "running" /\ ReqDone(p)

\* the steps of the watcher, taken by a running process
OffWatchStart == proc.state = "running" /\ WatchStart

\* one route of the watcher's snapshot: an idle route takes the watcher to
\* GetDeploymentStatus
OffWatchRoute ==
    /\ proc.state = "running"
    /\ IF proc.client = "nil" /\ wc.pc = "route" /\ IsIdle(wc.routes[wc.i], now)
       THEN /\ proc' = [proc EXCEPT !.state = "crashed"]
            /\ UNCHANGED <<store, cp, now, hc, probe, wc, sc, rq, mu, held,
                           ing, tk, mt, lg>>
       ELSE WatchRoute

OffWatchScaleMain == proc.state = "running" /\ WatchScaleMain

OffWatchScaleDep == proc.state = "running" /\ WatchScaleDep

\* the registry as loaded from the file, its routes last active at 0 or 1,
\* at time 2; all workloads asleep
InitOffline ==
    /\ store \in IdleStores
    /\ cp = [d \in Deployments |-> [desired |-> 0, ready |-> 0]]
    /\ now = 2
    /\ hc = [p \in Procs |-> IdleCtx]
    /\ probe = NoProbe
    /\ wc = IdleWatch
    /\ sc = IdlePoll
    /\ rq = [c \in Clients |-> IdleRq]
    /\ mu = FreeLock
    /\ held = {}
    /\ ing = [n \in IngressNames |-> NoIngress]
    /\ tk = IdleTicker
    /\ mt = NoMetrics
    /\ lg = NoLogger
    /\ proc \in {Running, Offline}

\* a crashed process takes no step
NextOffline ==
    \/ \E p \in Procs, r \in Requests : OffReqStart(p, r.host, r.path)
    \/ \E p \in Procs : OffReqTouchId(p)
    \/ \E p \in Procs : OffReqTouchPath(p)
    \/ \E p \in Procs : OffReqQuery(p)
    \/ \E p \in Procs : OffReqWake(p)
    \/ \E p \in Procs : OffReqDone(p)
    \/ OffWatchStart
    \/ OffWatchRoute
    \/ OffWatchScaleMain
    \/ OffWatchScaleDep

SpecOffline == InitOffline /\ [][NextOffline]_vars

(* C37: in offline/demo mode the proxy handler and the idle watcher keep   *)
(* running: with a nil Kubernetes client neither a matched request nor a   *)
(* tick over an idle route crashes the process.                            *)
C37_OfflineKeepsRunning ==
    proc.client = "nil" => proc.state = "running"

(* C38: after an Ingress has been unpatched its route stays absent from    *)
(* the registry, also across a startup sync: an Ingress that was unpatched *)
(* and not patched again has no route in the registry.                     *)
C38_UnpatchedStaysAbsent ==
    \A n \in IngressNames :
        (ing[n].exists /\ ing[n].restored /\ ~ing[n].patched)
            => IngressRouteId(n) \notin DOMAIN store

(***************************************************************************)
(* Handler.Metrics.  ServeHTTP counts a request right before it proxies:   *)
(*     h.Metrics.TotalRequests++                                           *)
(*     if matchedRoute.ID != "" { h.Metrics.RouteStats[matchedRoute.ID]++ }*)
(* with no lock and no atomic operation, in the goroutine of each request: *)
(* each ++ is a load and a store, and two goroutines writing the map at    *)
(* once may be caught by the runtime (fatal error: concurrent map writes). *)
(***************************************************************************)
\* the requests counted in one run
MaxForwards == 3

\* matchedRoute.ID of the requests: routes with and without an id
MetricIds == {<<>>, <<"r">>, <<"/", "a">>}

\* h.Metrics.RouteStats[id], 0 for a key the map does not hold
RouteStat(id) == IF id \in DOMAIN mt.RouteStats THEN mt.RouteStats[id] ELSE 0

\* a request whose workloads are all ready reaches `// Track Metrics`
MtBegin(c, id) ==
    /\ proc.state = "running"
    /\ mt.pc[c] = "idle"
    /\ mt.started < MaxForwards
    /\ mt' = [mt EXCEPT !.pc[c] = "load", !.id[c] = id, !.started = @ + 1]
    /\ UNCHANGED <<store, cp, now, hc, probe, wc, sc, rq, mu, held, ing,
                   tk, lg, proc>>

\* the counting is over: the request is proxied
MtPassed(m, c) ==
    [m EXCEPT !.pc[c] = "idle", !.forwarded = @ + 1,
              !.routed = IF m.id[c] # <<>> THEN @ + 1 ELSE @]

\* TotalRequests++ : the load
MtLoad(c) ==
    /\ proc.state = "running"
    /\ mt.pc[c] = "load"
    /\ mt' = [mt EXCEPT !.pc[c] = "store", !.reg[c] = mt.TotalRequests]
    /\ UNCHANGED <<store, cp, now, hc, probe, wc, sc, rq, mu, held, ing,
                   tk, lg, proc>>

\* TotalRequests++ : the store, then `if matchedRoute.ID != ""`
MtStore(c) ==
    /\ proc.state = "running"
    /\ mt.pc[c] = "store"
    /\ LET m == [mt EXCEPT !.TotalRequests = mt.reg[c] + 1]
       IN  mt' = IF mt.id[c] # <<>> THEN [m EXCEPT !.pc[c] = "loadRoute"]
                 ELSE MtPassed(m, c)
    /\ UNCHANGED <<store, cp, now, hc, probe, wc, sc, rq, mu, held, ing,
                   tk, lg, proc>>

\* RouteStats[ID]++ : the map read
MtLoadRoute(c) ==
    /\ proc.state = "running"
    /\ mt.pc[c] = "loadRoute"
    /\ mt' = [mt EXCEPT !.pc[c] = "storeRoute", !.reg[c] = RouteStat(mt.id[c])]
    /\ UNCHANGED <<store, cp, now, hc, probe, wc, sc, rq, mu, held, ing,
                   tk, lg, proc>>

\* RouteStats[ID]++ : the map write; detected: the runtime caught it while
\* another goroutine was in its own map access
MtStoreRoute(c, detected) ==
    /\ proc.state = "running"
    /\ mt.pc[c] = "storeRoute"
    /\ detected => \E d \in Clients \ {c} : mt.pc[d] \in {"loadRoute", "storeRoute"}
    /\ IF detected
       THEN /\ proc' = [proc EXCEPT !.state = "crashed"]
            /\ mt' = mt
       ELSE /\ proc' = proc
            /\ mt' = MtPassed(
                  [mt EXCEPT !.RouteStats =
                      [k \in DOMAIN mt.RouteStats \cup {mt.id[c]} |->
                          IF k = mt.id[c] THEN mt.reg[c] + 1
                          ELSE mt.RouteStats[k]]], c)
    /\ UNCHANGED <<store, cp, now, hc, probe, wc, sc, rq, mu, held, ing,
                   tk, lg>>

InitMetrics ==
    /\ store \in InitialStores
    /\ cp = [d \in Deployments |-> [desired |-> 1, ready |-> 1]]
    /\ now = 1
    /\ hc = [p \in Procs |-> IdleCtx]
    /\ probe = NoProbe
    /\ wc = IdleWatch
    /\ sc = IdlePoll
    /\ InitOthers

NextMetrics ==
    \/ \E c \in Clients, id \in MetricIds : MtBegin(c, id)
    \/ \E c \in Clients : MtLoad(c)
    \/ \E c \in Clients : MtStore(c)
    \/ \E c \in Clients : MtLoadRoute(c)
    \/ \E c \in Clients, detected \in BOOLEAN : MtStoreRoute(c, detected)

SpecMetrics == InitMetrics /\ [][NextMetrics]_vars

RECURSIVE SumStats(_)
SumStats(f) ==
    IF DOMAIN f = {} THEN 0
    ELSE LET k == CHOOSE x \in DOMAIN f : TRUE
         IN  f[k] + SumStats([x \in DOMAIN f \ {k} |-> f[x]])

(* C39: the metrics stay consistent under concurrent requests: whenever no *)
(* request is in the middle of the counting, TotalRequests is the number   *)
(* of requests forwarded and the per-route counters add up to the number   *)
(* of forwarded requests whose route has a non-empty id.                   *)
C39_NoIncrementLost ==
    (proc.state = "running" /\ \A c \in Clients : mt.pc[c] = "idle") =>
        /\ mt.TotalRequests = mt.forwarded
        /\ SumStats(mt.RouteStats) = mt.routed

(***************************************************************************)
(* The logger.  Log takes l.mu, appends to the buffer and offers the entry *)
(* to every subscriber with `select { case ch <- entry: default: }`;       *)
(* Subscribe and Unsubscribe take the same mutex; the admin log stream     *)
(* subscribes once, reads its channel, and unsubscribes once when its      *)
(* client goes away.                                                       *)
(***************************************************************************)
\* the capacity of a subscriber's channel (make(chan LogEntry, 100)), scaled
LogCap == 2

\* a Log that broadcasts without taking l.mu
LogLock_NoMutex(g) ==
    /\ lg.pc[g] = "idle"
    /\ lg' = [lg EXCEPT !.pc[g] = "bcast", !.todo[g] = lg.subscribers]
    /\ UNCHANGED <<store, cp, now, hc, probe, wc, sc, rq, mu, held, ing,
                   tk, mt, proc>>

\* Log: l.mu.Lock(), the append, and the start of `for ch := range
\* l.subscribers`
LogLock(g) ==
    /\ lg.pc[g] = "idle"
    /\ lg.w = ""
    /\ lg' = [lg EXCEPT !.w = g, !.pc[g] = "bcast", !.todo[g] = lg.subscribers]
    /\ UNCHANGED <<store, cp, now, hc, probe, wc, sc, rq, mu, held, ing,
                   tk, mt, proc>>

\* Log: one iteration, select { case ch <- entry: default: }.  A send on a
\* closed channel panics, also inside a select with a default
LogSend(g, f) ==
    /\ lg.pc[g] = "bcast"
    /\ f \in lg.todo[g]
    /\ LET m == [lg EXCEPT !.todo[g] = @ \ {f}]
       IN  lg' = IF lg.ch[f].state # "open" THEN [m EXCEPT !.sentClosed = TRUE]
                 ELSE IF lg.ch[f].len < LogCap THEN [m EXCEPT !.ch[f].len = @ + 1]
                 ELSE [m EXCEPT !.dropped = TRUE]
    /\ UNCHANGED <<store, cp, now, hc, probe, wc, sc, rq, mu, held, ing,
                   tk, mt, proc>>

\* Log: the loop is over, the deferred l.mu.Unlock()
LogUnlock(g) ==
    /\ lg.pc[g] = "bcast"
    /\ lg.todo[g] = {}
    /\ lg' = [lg EXCEPT !.w = IF @ = g THEN "" ELSE @, !.pc[g] = "idle"]
    /\ UNCHANGED <<store, cp, now, hc, probe, wc, sc, rq, mu, held, ing,
                   tk, mt, proc>>

\* Subscribe, from Lock to Unlock: a new channel in l.subscribers
Subscribe(f) ==
    /\ lg.pc[f] = "idle"
    /\ lg.w = ""
    /\ lg' = [lg EXCEPT !.pc[f] = "following",
                        !.subscribers = @ \cup {f},
                        !.ch[f] = [state |-> "open", len |-> 0]]
    /\ UNCHANGED <<store, cp, now, hc, probe, wc, sc, rq, mu, held, ing,
                   tk, mt, proc>>

\* the log stream reads one entry from its channel
LogReceive(f) ==
    /\ lg.pc[f] = "following"
    /\ lg.ch[f].len > 0
    /\ lg' = [lg EXCEPT !.ch[f].len = @ - 1]
    /\ UNCHANGED <<store, cp, now, hc, probe, wc, sc, rq, mu, held, ing,
                   tk, mt, proc>>

\* Unsubscribe, from Lock to Unlock: delete(l.subscribers, ch); close(ch)
Unsubscribe(f) ==
    /\ lg.pc[f] = "following"
    /\ lg.w = ""
    /\ lg' = [lg EXCEPT !.pc[f] = "gone",
                        !.subscribers = @ \ {f},
                        !.ch[f].state = "closed"]
    /\ UNCHANGED <<store, cp, now, hc, probe, wc, sc, rq, mu, held, ing,
                   tk, mt, proc>>

InitLogger ==
    /\ store = EmptyStore
    /\ cp = [d \in Deployments |-> [desired |-> 0, ready |-> 0]]
    /\ now = 1
    /\ hc = [p \in Procs |-> IdleCtx]
    /\ probe = NoProbe
    /\ wc = IdleWatch
    /\ sc = IdlePoll
    /\ InitOthers

NextLogger ==
    \/ \E g \in Loggers : LogLock(g)
    \/ \E g \in Loggers, f \in Followers : LogSend(g, f)
    \/ \E g \in Loggers : LogUnlock(g)
    \/ \E f \in Followers : Subscribe(f)
    \/ \E f \in Followers : LogReceive(f)
    \/ \E f \in Followers : Unsubscribe(f)

SpecLogger == InitLogger /\ [][NextLogger]_vars

\* the next step of the Log call of g
LogStep(g) == (\E f \in Followers : LogSend(g, f)) \/ LogUnlock(g)

(* C40: the broadcast is safe under any interleaving of Log, Subscribe and *)
(* Unsubscribe: no send has hit a closed channel, every channel a running  *)
(* broadcast has still to offer the entry to is open, and a Log inside its *)
(* broadcast can always take its next step, whatever the buffers hold.     *)
C40_BroadcastSafe ==
    /\ ~lg.sentClosed
    /\ \A g \in Loggers :
         lg.pc[g] = "bcast" =>
            /\ \A f \in lg.todo[g] : lg.ch[f].state = "open"
            /\ ENABLED LogStep(g)

\* a broadcast is under way after an entry was dropped for a full
\* subscriber, one subscriber has unsubscribed and the other's buffer is full
C40_Witness ==
    /\ lg.dropped
    /\ \E g \in Loggers : lg.pc[g] = "bcast" /\ lg.todo[g] # {}
    /\ \E f \in Followers : lg.ch[f].state = "closed"
    /\ \E f \in Followers : lg.ch[f].state = "open" /\ lg.ch[f].len = LogCap


====
